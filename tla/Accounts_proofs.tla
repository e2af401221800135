-------------------------- MODULE Accounts_proofs --------------------------
(***************************************************************************)
(* Somebody can always administer the system, and being signed out is      *)
(* final, for any number of accounts, open transactions and sessions.      *)
(* Neither invariant is inductive: both depend on what an open transaction *)
(* has read, locked and selected by the time it commits.                   *)
(***************************************************************************)
EXTENDS Accounts, TLAPS

-----------------------------------------------------------------------------
(* The inductive invariant *)

Row == [role : Roles, active : BOOLEAN]
Rows == Row \cup {Missing}
TxKinds == {"login", "refresh", "signout", "password", "update", "create"}
TxState == [kind : TxKinds, pc : TxPhases \ {"idle"}, user : Users, saw : Rows, want : Rows,
            epoch : Nat, parent : Nat, mine : SUBSET Nat, updated : SUBSET Users,
            locked : SUBSET Users]
Session == [user : Users, role : Roles, epoch : Nat, revoked : BOOLEAN, raced : BOOLEAN]

\* Guarded and SignsOut, of the record of a transaction.
MustGuard(k) ==
  \/ k.saw.role = "admin" /\ k.want.role # "admin"
  \/ k.saw.active /\ ~k.want.active /\ k.want.role = "admin"
MustSignOut(k) ==
  k.kind # "update" \/ k.saw.role # k.want.role \/ (k.saw.active /\ ~k.want.active)

\* What the phase of a transaction says of what it has read.
Phased(k) ==
  /\ k.epoch <= epoch[k.user] /\ k.mine \subseteq DOMAIN sessions
  /\ k.pc \in {"verify", "rotate"} => k.saw \in Row
  /\ k.pc = "guard" => k.kind = "update"
  /\ k.pc \in {"guard", "select", "commit"} /\ k.kind = "update"
       => k.saw \in Row /\ k.want \in Row /\ users[k.user] \in Row
  /\ k.pc = "flush" \/ (k.pc \in {"select", "commit"} /\ k.kind # "update")
       => k.saw = k.want /\ k.kind # "update"

\* A guarded transaction has locked an active administrator other than its user.
Covered(k) ==
  k.pc \in {"select", "commit"} /\ k.kind = "update" /\ MustGuard(k)
    => (k.locked \ {k.user}) \cap ActiveAdmins # {}

\* Who is about to mint a session has read its user's row since the user was last
\* signed out, or the session will be minted as raced.
UpToDate(k) ==
  k.pc \in {"verify", "rotate"} /\ k.epoch = epoch[k.user]
    => users[k.user].active /\ users[k.user].role = k.saw.role

\* A transaction about to sign its user out has selected every session of it, but
\* those minted since, which are raced.
Swept(k) ==
  k.pc = "commit" /\ MustSignOut(k)
    => \A s \in DOMAIN sessions :
         sessions[s].user = k.user /\ ~sessions[s].revoked /\ ~sessions[s].raced => s \in k.mine

TxOK(k) == k \in TxState /\ Phased(k) /\ Covered(k) /\ UpToDate(k) /\ Swept(k)
TxsOK == \A t \in AccountTx : atx[t] = NoAccountTx \/ TxOK(atx[t])

\* Types of the committed rows; no session is of a revocation yet to come.
RowTypes ==
  /\ users \in [Users -> Rows] /\ sessions \in Seq(Session)
  /\ epoch \in [Users -> Nat] /\ overtaken \in BOOLEAN
  /\ \A s \in DOMAIN sessions : sessions[s].epoch <= epoch[sessions[s].user]

AccountsIInv ==
  /\ RowTypes
  /\ atx \in [AccountTx -> TxState \cup {NoAccountTx}] /\ TxsOK
  /\ AdminRemains /\ RevocationIsComplete

-----------------------------------------------------------------------------
(* Lemmas *)

\* The bootstrap account is an administrator, and nobody has signed in.
LEMMA AccountsInitIInv == AccountsInit => AccountsIInv
<1> SUFFICES ASSUME AccountsInit PROVE AccountsIInv
  OBVIOUS
<1>1. RowTypes
  <2>1. users \in [Users -> Rows]
    BY DEF AccountsInit, Rows, Row, Roles, Account, Missing
  <2>2. sessions \in Seq(Session) /\ DOMAIN sessions = {}
    BY DEF AccountsInit
  <2> QED
    BY <2>1, <2>2 DEF AccountsInit, RowTypes
<1>2. atx \in [AccountTx -> TxState \cup {NoAccountTx}] /\ TxsOK
  BY DEF AccountsInit, TxsOK
<1>3. Bootstrap \in ActiveAdmins
  BY AccountBounds DEF AccountsInit, ActiveAdmins, Account
<1>4. RevocationIsComplete
  BY DEF AccountsInit, RevocationIsComplete
<1> QED
  BY <1>1, <1>2, <1>3, <1>4 DEF AccountsIInv, AdminRemains

\* The record of an open transaction is sound.
LEMMA OpenTx ==
  ASSUME AccountsIInv, NEW t \in AccountTx, atx[t].pc # "idle"
  PROVE  TxOK(atx[t])
  BY DEF AccountsIInv, TxsOK, NoAccountTx

\* A row is a record.
LEMMA RowFields ==
  ASSUME NEW r \in Row
  PROVE  r = [role |-> r.role, active |-> r.active] /\ r.role \in Roles /\ r.active \in BOOLEAN
         /\ r # Missing
  BY DEF Row, Missing, Roles

\* An enabled account exists.
LEMMA ActiveIsRow ==
  ASSUME RowTypes, NEW u \in Users, users[u].active \/ users[u] # Missing
  PROVE  users[u] \in Row
  BY DEF RowTypes, Rows, Missing

\* A session is a record of a known user.
LEMMA SessionFields ==
  ASSUME RowTypes, NEW s \in DOMAIN sessions
  PROVE  /\ s \in Nat /\ sessions[s].user \in Users /\ sessions[s].role \in Roles
         /\ sessions[s].epoch \in Nat /\ epoch[sessions[s].user] \in Nat
         /\ sessions[s].epoch <= epoch[sessions[s].user]
<1>1. sessions \in Seq(Session)
  BY DEF RowTypes
<1>2. s \in Nat /\ sessions[s] \in Session
  BY <1>1
<1>3. sessions[s].user \in Users /\ sessions[s].role \in Roles /\ sessions[s].epoch \in Nat
  BY <1>2 DEF Session
<1> QED
  BY <1>2, <1>3 DEF RowTypes

\* A step that changes no committed row concerns its own transaction only.
LEMMA LocalStep ==
  ASSUME AccountsIInv, NEW t \in AccountTx, NEW k, k = NoAccountTx \/ TxOK(k),
         atx' = [atx EXCEPT ![t] = k], UNCHANGED <<users, sessions, epoch, overtaken>>
  PROVE  AccountsIInv'
<1>1. RowTypes' /\ AdminRemains' /\ RevocationIsComplete'
  BY DEF AccountsIInv, RowTypes, AdminRemains, ActiveAdmins, RevocationIsComplete, Live
<1>2. atx' \in [AccountTx -> TxState \cup {NoAccountTx}]
  BY DEF AccountsIInv, TxOK
<1>3. ASSUME NEW o \in AccountTx PROVE atx'[o] = NoAccountTx \/ TxOK(atx'[o])
  BY DEF AccountsIInv, TxsOK
<1> QED
  BY <1>1, <1>2, <1>3 DEF AccountsIInv, TxsOK, TxOK, Phased, Covered, UpToDate, Swept, ActiveAdmins

\* Beginning a transaction: what it has to have read for its first phase.
LEMMA BeginStep ==
  ASSUME AccountsIInv, NEW t \in AccountTx, NEW kind \in TxKinds, NEW u \in Users,
         NEW want \in Rows, NEW pc \in {"verify", "flush", "select", "guard", "insert"},
         Begin(t, kind, u, want, pc),
         pc = "verify" => users[u].active,
         pc = "guard" => kind = "update" /\ want \in Row /\ users[u] \in Row,
         pc \in {"flush", "select"} => kind # "update" /\ want = users[u]
  PROVE  AccountsIInv'
<1> DEFINE k == [kind |-> kind, pc |-> pc, user |-> u, saw |-> users[u], want |-> want,
                 epoch |-> epoch[u], parent |-> 0, mine |-> {}, updated |-> {}, locked |-> {}]
<1>0. RowTypes
  BY DEF AccountsIInv
<1>1. k \in TxState
  BY <1>0 DEF TxState, TxPhases, RowTypes
<1>2. Phased(k)
  BY <1>0, ActiveIsRow DEF Phased, RowTypes
<1>3. UpToDate(k)
  BY DEF UpToDate
<1>4. Covered(k) /\ Swept(k)
  BY DEF Covered, Swept
<1>5. atx' = [atx EXCEPT ![t] = k] /\ UNCHANGED <<users, sessions, epoch, overtaken>>
  BY DEF Begin
<1> HIDE DEF k
<1> QED
  BY <1>1, <1>2, <1>3, <1>4, <1>5, LocalStep DEF TxOK

\* The statements that only read, flush or lock keep the invariant.
LEMMA StatementStep ==
  ASSUME AccountsIInv, NEW t \in AccountTx,
         \/ RefreshOwner(t) \/ FlushPassword(t) \/ SelectSessions(t) \/ GuardAdmins(t)
         \/ AbortTx(t)
  PROVE  AccountsIInv'
<1> DEFINE x == atx[t]
           u == x.user
<1>0. RowTypes /\ UNCHANGED <<users, sessions, epoch, overtaken>> /\ TxOK(x)
  BY OpenTx DEF AccountsIInv, RefreshOwner, FlushPassword, SelectSessions, GuardAdmins, AbortTx
<1>00. u \in Users
  BY <1>0 DEF TxOK, TxState
<1>1. CASE RefreshOwner(t)
  <2> DEFINE k == [x EXCEPT !.saw = users[u], !.pc = "rotate"]
  <2>1. atx' = [atx EXCEPT ![t] = k] /\ users[u].active /\ users[u] \in Row
    BY <1>0, <1>00, <1>1, ActiveIsRow DEF RefreshOwner
  <2>2. k \in TxState
    BY <1>0, <2>1 DEF TxOK, TxState, TxPhases, Rows
  <2>3. Phased(k) /\ UpToDate(k) /\ Covered(k) /\ Swept(k)
    BY <1>0, <2>1 DEF TxOK, TxState, Phased, UpToDate, Covered, Swept
  <2> HIDE DEF k
  <2> QED
    BY <1>0, <2>1, <2>2, <2>3, LocalStep DEF TxOK
<1>2. CASE FlushPassword(t)
  <2> DEFINE k == [x EXCEPT !.updated = {u}, !.pc = "select"]
  <2>1. atx' = [atx EXCEPT ![t] = k] /\ x.pc = "flush"
    BY <1>2 DEF FlushPassword
  <2>2. k \in TxState
    BY <1>0, <1>00 DEF TxOK, TxState, TxPhases
  <2>3. Phased(k) /\ UpToDate(k) /\ Covered(k) /\ Swept(k)
    BY <1>0, <2>1 DEF TxOK, TxState, Phased, UpToDate, Covered, Swept
  <2> HIDE DEF k
  <2> QED
    BY <1>0, <2>1, <2>2, <2>3, LocalStep DEF TxOK
<1>3. CASE SelectSessions(t)
  <2> DEFINE k == [x EXCEPT !.mine = LiveOf(u), !.pc = "commit"]
  <2>1. atx' = [atx EXCEPT ![t] = k] /\ x.pc = "select"
    BY <1>3 DEF SelectSessions
  <2>2. LiveOf(u) \in SUBSET Nat /\ LiveOf(u) \subseteq DOMAIN sessions
    BY <1>0 DEF LiveOf, RowTypes
  <2>3. k \in TxState
    BY <1>0, <2>2 DEF TxOK, TxState, TxPhases
  <2>4. Phased(k) /\ UpToDate(k)
    BY <1>0, <2>1, <2>2 DEF TxOK, TxState, Phased, UpToDate
  <2>5. Covered(k)
    BY <1>0, <2>1 DEF TxOK, TxState, Covered, MustGuard
  <2>6. Swept(k)
    BY <1>0 DEF TxOK, TxState, Swept, LiveOf, Live
  <2> HIDE DEF k
  <2> QED
    BY <1>0, <2>1, <2>3, <2>4, <2>5, <2>6, LocalStep DEF TxOK
<1>4. CASE GuardAdmins(t)
  <2> DEFINE next == IF SignsOut(t) THEN "select" ELSE "commit"
             locks == IF Guarded(t) THEN ActiveAdmins ELSE {}
             writes == IF RoleChanges(t) THEN {u} ELSE {}
             k == [x EXCEPT !.locked = locks, !.updated = writes, !.pc = next]
  <2>1. /\ atx' = [atx EXCEPT ![t] = k] /\ x.pc = "guard" /\ x.kind = "update"
        /\ Guarded(t) => ActiveAdmins \ {u} # {}
    BY <1>0, <1>4 DEF GuardAdmins, TxOK, Phased
  <2>2. locks \in SUBSET Users /\ writes \in SUBSET Users /\ next \in {"select", "commit"}
    BY <1>00 DEF ActiveAdmins
  <2>9. x \in TxState /\ next \in TxPhases
    BY <1>0, <2>2 DEF TxOK, TxPhases
  <2>5. k \in TxState
    <3> HIDE DEF next, locks, writes
    <3> QED
      BY <2>2, <2>9 DEF TxState
  <2>3. MustGuard(k) <=> Guarded(t)
    BY <1>0 DEF MustGuard, Guarded, Demotes, Disables, TxOK, TxState
  <2>4. MustSignOut(k) <=> SignsOut(t)
    BY <1>0 DEF MustSignOut, SignsOut, RoleChanges, Disables, TxOK, TxState
  <2>6. Phased(k) /\ UpToDate(k)
    BY <1>0, <2>1, <2>2 DEF TxOK, TxState, Phased, UpToDate
  <2>7. Covered(k)
    <3>1. x \in TxState /\ k.pc = next /\ k.locked = locks /\ k.saw = x.saw /\ k.user = u
      BY <1>0 DEF TxOK, TxState
    <3>2. ASSUME MustGuard(k) PROVE (k.locked \ {k.user}) \cap ActiveAdmins # {}
      BY <2>1, <2>3, <3>1, <3>2
    <3> QED
      BY <3>2 DEF Covered
  <2>8. Swept(k)
    BY <1>0, <2>4 DEF TxOK, TxState, Swept
  <2> HIDE DEF k
  <2> QED
    BY <1>0, <2>1, <2>5, <2>6, <2>7, <2>8, LocalStep DEF TxOK
<1>5. CASE AbortTx(t)
  BY <1>0, <1>5, LocalStep DEF AbortTx, EndTx
<1> QED
  BY <1>1, <1>2, <1>3, <1>4, <1>5

\* A step that changes sessions only: those there were may be revoked, and one that
\* is minted is raced unless its user is not being signed out.
LEMMA SessionsStep ==
  ASSUME AccountsIInv, UNCHANGED <<users, epoch, overtaken>>,
         sessions' \in Seq(Session), DOMAIN sessions \subseteq DOMAIN sessions',
         \A s \in DOMAIN sessions :
           /\ sessions'[s].user = sessions[s].user /\ sessions'[s].role = sessions[s].role
           /\ sessions'[s].epoch = sessions[s].epoch /\ sessions'[s].raced = sessions[s].raced
           /\ sessions[s].revoked => sessions'[s].revoked,
         \A s \in DOMAIN sessions' \ DOMAIN sessions :
           LET new == sessions'[s] IN
             /\ new.epoch <= epoch[new.user]
             /\ \/ new.raced
                \/ /\ new.epoch = epoch[new.user] /\ users[new.user].active
                   /\ users[new.user].role = new.role
                   /\ \A o \in AccountTx : atx'[o].pc = "commit" /\ MustSignOut(atx'[o])
                                             => atx'[o].user # new.user,
         \A o \in AccountTx : atx'[o] = atx[o] \/ atx'[o] = NoAccountTx,
         atx' \in [AccountTx -> TxState \cup {NoAccountTx}]
  PROVE  AccountsIInv'
<1>1. RowTypes'
  BY DEF AccountsIInv, RowTypes
<1>2. AdminRemains'
  BY DEF AccountsIInv, AdminRemains, ActiveAdmins
<1>3. RevocationIsComplete'
  <2> SUFFICES ASSUME NEW s \in DOMAIN sessions', ~sessions'[s].revoked, ~sessions'[s].raced
               PROVE  LET x == sessions'[s] IN
                        x.epoch = epoch[x.user] /\ users[x.user].active /\ users[x.user].role = x.role
    BY DEF RevocationIsComplete, Live
  <2>1. CASE s \in DOMAIN sessions
    BY <2>1 DEF AccountsIInv, RevocationIsComplete, Live
  <2>2. CASE s \notin DOMAIN sessions
    BY <2>2
  <2> QED
    BY <2>1, <2>2
<1>4. TxsOK'
  <2> SUFFICES ASSUME NEW o \in AccountTx, atx'[o] # NoAccountTx PROVE TxOK(atx[o])'
    BY DEF TxsOK, TxOK, Phased, Covered, UpToDate, Swept, MustGuard, MustSignOut, ActiveAdmins
  <2> PICK k : k = atx[o]
    OBVIOUS
  <2>1. atx'[o] = k /\ TxOK(k)
    BY DEF AccountsIInv, TxsOK
  <2>2. TxOK(k)'
    <3>1. Phased(k)' /\ Covered(k)' /\ UpToDate(k)'
      BY <2>1 DEF TxOK, Phased, Covered, UpToDate, ActiveAdmins
    <3>2. ASSUME k.pc = "commit", MustSignOut(k), NEW s \in DOMAIN sessions',
                 sessions'[s].user = k.user, ~sessions'[s].revoked, ~sessions'[s].raced
          PROVE  s \in k.mine
      <4>1. s \in DOMAIN sessions
        BY <2>1, <3>2
      <4> QED
        BY <2>1, <3>2, <4>1 DEF TxOK, Swept
    <3> QED
      BY <2>1, <3>1, <3>2 DEF TxOK, Swept, MustSignOut
  <2> QED
    BY <2>1, <2>2 DEF TxOK, Phased, Covered, UpToDate, Swept, MustGuard, MustSignOut, ActiveAdmins
<1> QED
  BY <1>1, <1>2, <1>3, <1>4 DEF AccountsIInv

\* The sessions, those of R revoked.
Revoking(R) == [s \in DOMAIN sessions |-> [sessions[s] EXCEPT !.revoked = @ \/ s \in R]]

\* Revoking sessions changes neither their number nor anything else of them.
LEMMA RevokedSessions ==
  ASSUME RowTypes, NEW R, NEW kept, kept = Revoking(R)
  PROVE  /\ kept \in Seq(Session) /\ DOMAIN kept = DOMAIN sessions /\ Len(kept) = Len(sessions)
         /\ \A s \in DOMAIN sessions :
              /\ kept[s].user = sessions[s].user /\ kept[s].role = sessions[s].role
              /\ kept[s].epoch = sessions[s].epoch /\ kept[s].raced = sessions[s].raced
              /\ kept[s].revoked = (sessions[s].revoked \/ s \in R)
<1>1. sessions \in Seq(Session) /\ DOMAIN sessions = 1..Len(sessions)
  BY DEF RowTypes
<1>2. \A s \in DOMAIN sessions : sessions[s] \in Session
  BY <1>1
<1>3. \A s \in DOMAIN sessions :
        [sessions[s] EXCEPT !.revoked = @ \/ s \in R] \in Session
  BY <1>2 DEF Session
<1>4. kept \in Seq(Session) /\ Len(kept) = Len(sessions)
  BY <1>1, <1>3 DEF Revoking
<1>5. ASSUME NEW s \in DOMAIN sessions
      PROVE  /\ kept[s].user = sessions[s].user /\ kept[s].role = sessions[s].role
             /\ kept[s].epoch = sessions[s].epoch /\ kept[s].raced = sessions[s].raced
             /\ kept[s].revoked = (sessions[s].revoked \/ s \in R)
  BY <1>2, <1>5 DEF Session, Revoking
<1> QED
  BY <1>4, <1>5 DEF Revoking

\* Signing out one session.
LEMMA LogoutStep ==
  ASSUME AccountsIInv, NEW r \in DOMAIN sessions, Logout(r)
  PROVE  AccountsIInv'
<1>1. sessions' = Revoking({r})
  <2>1. \A s \in DOMAIN sessions : sessions[s] \in Session
    BY DEF AccountsIInv, RowTypes
  <2>2. \A s \in DOMAIN sessions :
          [sessions[s] EXCEPT !.revoked = @ \/ s \in {r}]
            = IF s = r THEN [sessions[s] EXCEPT !.revoked = TRUE] ELSE sessions[s]
    BY <2>1 DEF Session
  <2> QED
    BY <2>2 DEF Logout, Revoking
<1>2. RowTypes
  BY DEF AccountsIInv
<1>3. /\ sessions' \in Seq(Session) /\ DOMAIN sessions' = DOMAIN sessions
      /\ \A s \in DOMAIN sessions :
           /\ sessions'[s].user = sessions[s].user /\ sessions'[s].role = sessions[s].role
           /\ sessions'[s].epoch = sessions[s].epoch /\ sessions'[s].raced = sessions[s].raced
           /\ sessions[s].revoked => sessions'[s].revoked
  <2>1. PICK R : R = {r}
    OBVIOUS
  <2>2. PICK k : k = Revoking(R)
    OBVIOUS
  <2>3. /\ k \in Seq(Session) /\ DOMAIN k = DOMAIN sessions
        /\ \A s \in DOMAIN sessions :
             /\ k[s].user = sessions[s].user /\ k[s].role = sessions[s].role
             /\ k[s].epoch = sessions[s].epoch /\ k[s].raced = sessions[s].raced
             /\ k[s].revoked = (sessions[s].revoked \/ s \in R)
    BY <1>2, <2>2, RevokedSessions
  <2>4. sessions' = k
    BY <1>1, <2>1, <2>2
  <2> QED
    BY <2>3, <2>4
<1>4. UNCHANGED <<users, atx, epoch, overtaken>> /\ atx \in [AccountTx -> TxState \cup {NoAccountTx}]
  BY DEF Logout, AccountsIInv
<1> QED
  BY <1>3, <1>4, SessionsStep

\* Minting a session: it is of the role and the revocation its transaction read, and
\* not raced only if no other transaction is about to sign its user out.
LEMMA MintStep ==
  ASSUME AccountsIInv, NEW t \in AccountTx, atx[t].pc \in {"verify", "rotate"}, NEW R,
         Mint(t, R), EndTx(t), UNCHANGED <<users, epoch, overtaken>>
  PROVE  AccountsIInv'
<1> DEFINE x == atx[t]
           u == x.user
           n == Len(sessions)
           kept == Revoking(R)
           raced == \/ x.epoch # epoch[u]
                    \/ \E o \in Others(t) :
                         atx[o].user = u /\ atx[o].pc = "commit" /\ SignsOut(o)
           new == [user |-> u, role |-> x.saw.role, epoch |-> x.epoch, revoked |-> FALSE,
                   raced |-> raced]
<1>1. RowTypes /\ TxOK(x) /\ x.saw \in Row /\ n \in Nat /\ DOMAIN sessions = 1..n
  BY OpenTx DEF AccountsIInv, TxOK, Phased, RowTypes
<1>2. new \in Session
  BY <1>1 DEF TxOK, TxState, Session, Row
<1>3. sessions' = Append(kept, new)
  BY DEF Mint, Revoking
<1>4. /\ kept \in Seq(Session) /\ Len(kept) = n
      /\ \A s \in 1..n :
           /\ kept[s].user = sessions[s].user /\ kept[s].role = sessions[s].role
           /\ kept[s].epoch = sessions[s].epoch /\ kept[s].raced = sessions[s].raced
           /\ kept[s].revoked = (sessions[s].revoked \/ s \in R)
  BY <1>1, RevokedSessions
<1>5. /\ sessions' \in Seq(Session) /\ DOMAIN sessions' = 1..n + 1
      /\ \A s \in 1..n : sessions'[s] = kept[s]
      /\ sessions'[n + 1] = new
  <2> HIDE DEF kept, new, n
  <2> QED
    BY <1>1, <1>2, <1>3, <1>4
<1>6. new.epoch <= epoch[u]
  BY <1>1 DEF TxOK, Phased
<1>7. ASSUME ~raced
      PROVE  /\ x.epoch = epoch[u] /\ users[u].active /\ users[u].role = x.saw.role
             /\ \A o \in AccountTx : atx'[o].pc = "commit" /\ MustSignOut(atx'[o])
                                       => atx'[o].user # u
  <2>1. x.epoch = epoch[u] /\ users[u].active /\ users[u].role = x.saw.role
    BY <1>1, <1>7 DEF TxOK, UpToDate
  <2>2. ASSUME NEW o \in AccountTx, atx'[o].pc = "commit", MustSignOut(atx'[o])
        PROVE  atx'[o].user # u
    <3>1. o # t /\ atx'[o] = atx[o]
      BY <2>2 DEF EndTx, NoAccountTx, AccountsIInv
    <3>2. o \in Others(t) /\ SignsOut(o)
      BY <2>2, <3>1 DEF Others, SignsOut, MustSignOut, RoleChanges, Disables
    <3> QED
      BY <1>7, <2>2, <3>1, <3>2
  <2> QED
    BY <2>1, <2>2
<1>8. new.user = u /\ new.role = x.saw.role /\ new.epoch = x.epoch /\ (new.raced <=> raced)
  OBVIOUS
<1>9. /\ \A o \in AccountTx : atx'[o] = atx[o] \/ atx'[o] = NoAccountTx
      /\ atx' \in [AccountTx -> TxState \cup {NoAccountTx}]
  BY DEF EndTx, AccountsIInv
<1>10. \A s \in DOMAIN sessions' \ DOMAIN sessions : sessions'[s] = new
  <2> HIDE DEF kept, new, n
  <2> QED
    BY <1>1, <1>5
<1>11. DOMAIN sessions \subseteq DOMAIN sessions'
  <2> HIDE DEF kept, new, n
  <2> QED
    BY <1>1, <1>5
<1> HIDE DEF kept, new, n, raced, x, u
<1>12. \A s \in DOMAIN sessions :
         /\ sessions'[s].user = sessions[s].user /\ sessions'[s].role = sessions[s].role
         /\ sessions'[s].epoch = sessions[s].epoch /\ sessions'[s].raced = sessions[s].raced
         /\ sessions[s].revoked => sessions'[s].revoked
  BY <1>1, <1>4, <1>5
<1>13. ASSUME NEW s \in DOMAIN sessions' \ DOMAIN sessions
       PROVE  LET new1 == sessions'[s] IN
                /\ new1.epoch <= epoch[new1.user]
                /\ \/ new1.raced
                   \/ /\ new1.epoch = epoch[new1.user] /\ users[new1.user].active
                      /\ users[new1.user].role = new1.role
                      /\ \A o \in AccountTx : atx'[o].pc = "commit" /\ MustSignOut(atx'[o])
                                                => atx'[o].user # new1.user
  BY <1>6, <1>7, <1>8, <1>10
<1> QED
  BY <1>5, <1>9, <1>11, <1>12, <1>13, SessionsStep

\* What a commit makes of its user's row: only the columns the transaction changed.
LEMMA CommittedRow ==
  ASSUME AccountsIInv, NEW t \in AccountTx, CommitUpdate(t), NEW u \in Users, u = atx[t].user
  PROVE  /\ users' \in [Users -> Rows]
         /\ \A v \in Users \ {u} : users'[v] = users[v]
         /\ users'[u].role = IF RoleChanges(t) THEN atx[t].want.role ELSE users[u].role
         /\ users'[u].active = IF atx[t].saw.active # atx[t].want.active
                               THEN atx[t].want.active ELSE users[u].active
         /\ users[u] \in Row => users'[u] \in Row
         /\ atx[t].saw = atx[t].want => users' = users
<1> DEFINE x == atx[t]
           role == IF RoleChanges(t) THEN x.want.role ELSE users[u].role
           active == IF x.saw.active # x.want.active THEN x.want.active ELSE users[u].active
<1>1. RowTypes /\ TxOK(x) /\ x.pc = "commit"
  BY OpenTx DEF AccountsIInv, CommitUpdate
<1>2. users' = [users EXCEPT ![u].role = role, ![u].active = active]
  BY DEF CommitUpdate
<1>3. users \in [Users -> Rows]
  BY <1>1 DEF RowTypes
<1>4. users' = [users EXCEPT ![u] = [role |-> role, active |-> active]]
  <2> HIDE DEF role, active
  <2>1. users[u] = [role |-> users[u].role, active |-> users[u].active]
    BY <1>3, RowFields DEF Rows, Missing
  <2>2. users'[u] = [[users[u] EXCEPT !.role = role] EXCEPT !.active = active]
    BY <1>2, <1>3
  <2>3. users'[u] = [role |-> role, active |-> active]
    BY <2>1, <2>2
  <2> QED
    BY <1>2, <1>3, <2>3
<1>5. CASE x.kind = "update"
  <2>1. x.saw \in Row /\ x.want \in Row /\ users[u] \in Row
    BY <1>1, <1>5 DEF TxOK, Phased
  <2>2. role \in Roles /\ active \in BOOLEAN
    BY <2>1, RowFields
  <2> HIDE DEF role, active
  <2>3. users' = [users EXCEPT ![u] = [role |-> role, active |-> active]]
    BY <1>4
  <2>4. [role |-> role, active |-> active] \in Row
    BY <2>2 DEF Row
  <2>5. x.saw = x.want => role = users[u].role /\ active = users[u].active
    BY DEF role, active, RoleChanges
  <2>6. x.saw = x.want => users' = users
    BY <1>3, <2>1, <2>3, <2>5, RowFields
  <2>7. users'[u].role = role /\ users'[u].active = active /\ users'[u] \in Row
    BY <1>3, <2>3, <2>4
  <2>8. users' \in [Users -> Rows] /\ \A v \in Users \ {u} : users'[v] = users[v]
    BY <1>3, <2>3, <2>4 DEF Rows
  <2> QED
    BY <2>6, <2>7, <2>8 DEF role, active
<1>6. CASE x.kind # "update"
  <2>1. x.saw = x.want
    BY <1>1, <1>6 DEF TxOK, Phased
  <2>2. role = users[u].role /\ active = users[u].active
    BY <2>1 DEF RoleChanges
  <2>3. users' = [users EXCEPT ![u] = [role |-> users[u].role, active |-> users[u].active]]
    BY <1>4, <2>2
  <2>4. users[u] = [role |-> users[u].role, active |-> users[u].active]
    BY <1>3, RowFields DEF Rows, Missing
  <2>5. users' = users
    BY <1>3, <2>3, <2>4
  <2> QED
    BY <1>3, <2>1, <2>2, <2>5
<1> QED
  BY <1>5, <1>6

\* A transaction that does not sign its user out neither changes its role nor disables it.
LEMMA QuietCommit ==
  ASSUME AccountsIInv, NEW t \in AccountTx, CommitUpdate(t), NEW u \in Users, u = atx[t].user
  PROVE  /\ SignsOut(t) => epoch' = [epoch EXCEPT ![u] = epoch[u] + 1]
         /\ ~SignsOut(t) => /\ epoch' = epoch
                            /\ users'[u].role = users[u].role
                            /\ users[u].active => users'[u].active
<1>1. RowTypes /\ TxOK(atx[t]) /\ atx[t].pc = "commit"
  BY OpenTx DEF AccountsIInv, CommitUpdate
<1>2. epoch' = [epoch EXCEPT ![u] = IF SignsOut(t) THEN epoch[u] + 1 ELSE epoch[u]]
  BY DEF CommitUpdate
<1>3. ASSUME ~SignsOut(t)
      PROVE  users'[u].role = users[u].role /\ (users[u].active => users'[u].active)
  <2>1. ~RoleChanges(t) /\ ~Disables(t) /\ atx[t].kind = "update"
    BY <1>3 DEF SignsOut
  <2>2. atx[t].saw \in Row /\ atx[t].want \in Row
    BY <1>1, <2>1 DEF TxOK, Phased
  <2>3. atx[t].saw.active \in BOOLEAN /\ atx[t].want.active \in BOOLEAN
    BY <2>2, RowFields
  <2> QED
    BY <2>1, <2>3, CommittedRow DEF Disables
<1> QED
  BY <1>1, <1>2, <1>3 DEF RowTypes

\* An account another open transaction has locked is not changed by a commit.
LEMMA LockedRowsStay ==
  ASSUME AccountsIInv, NEW t \in AccountTx, CommitUpdate(t),
         NEW o \in AccountTx, o # t, atx[o].pc # "idle",
         NEW a \in Users, a \in atx[o].locked
  PROVE  users'[a] = users[a]
<1>1. TxOK(atx[t]) /\ atx[t].user \in Users
  BY OpenTx DEF CommitUpdate, TxOK, TxState
<1>2. CASE a # atx[t].user
  BY <1>1, <1>2, CommittedRow
<1>3. CASE a = atx[t].user
  <2>1. atx[t].saw = atx[t].want
    BY <1>3 DEF CommitUpdate, MayUpdate, Others
  <2> QED
    BY <1>1, <2>1, CommittedRow
<1> QED
  BY <1>2, <1>3

\* The last administrator is only lost to a commit that overtakes a change of role.
LEMMA CommitKeepsAdmin ==
  ASSUME AccountsIInv, NEW t \in AccountTx, CommitUpdate(t)
  PROVE  AdminRemains'
<1> DEFINE x == atx[t]
           u == x.user
<1>1. RowTypes /\ TxOK(x) /\ x.pc = "commit" /\ u \in Users
  BY OpenTx DEF AccountsIInv, CommitUpdate, TxOK, TxState
<1>2. overtaken' = (overtaken \/ (Disables(t) /\ x.saw.role # users[u].role))
  BY DEF CommitUpdate
<1>3. \A a \in ActiveAdmins \ {u} : a \in ActiveAdmins'
  BY <1>1, CommittedRow DEF ActiveAdmins
<1>4. CASE overtaken
  BY <1>2, <1>4 DEF AdminRemains
<1>5. CASE ActiveAdmins \ {u} # {}
  BY <1>3, <1>5 DEF AdminRemains
<1>6. CASE u \in ActiveAdmins /\ ActiveAdmins \ {u} = {}
  <2>1. CASE x.kind # "update"
    <3>1. users' = users
      BY <1>1, <2>1, CommittedRow DEF TxOK, Phased
    <3> QED
      BY <1>6, <3>1 DEF AdminRemains, ActiveAdmins
  <2>2. CASE x.kind = "update"
    <3>1. ~MustGuard(x)
      BY <1>1, <1>6, <2>2 DEF TxOK, Covered
    <3>2. x.saw \in Row /\ x.want \in Row
      BY <1>1, <2>2 DEF TxOK, Phased
    <3>3. x.saw.active \in BOOLEAN /\ x.want.active \in BOOLEAN /\ users[u].active
          /\ users[u].role = "admin"
      BY <1>6, <3>2, RowFields DEF ActiveAdmins
    <3>4. users'[u].role = "admin"
      BY <1>1, <3>1, <3>2, <3>3, RowFields, CommittedRow DEF MustGuard, RoleChanges, Roles
    <3>5. CASE Disables(t)
      <4>1. x.saw.role # "admin"
        BY <3>1, <3>5 DEF MustGuard, Disables
      <4> QED
        BY <1>2, <3>3, <3>5, <4>1 DEF AdminRemains
    <3>6. CASE ~Disables(t)
      <4>1. users'[u].active
        BY <1>1, <3>3, <3>6, CommittedRow DEF Disables
      <4> QED
        BY <1>1, <3>4, <4>1 DEF AdminRemains, ActiveAdmins
    <3> QED
      BY <3>5, <3>6
  <2> QED
    BY <2>1, <2>2
<1> QED
  BY <1>4, <1>5, <1>6 DEF AccountsIInv, AdminRemains

\* A commit keeps the invariant: what it changes it has locked against those who rely
\* on it, and whoever it signs out it has selected, or will find raced.
LEMMA CommitStep ==
  ASSUME AccountsIInv, NEW t \in AccountTx, CommitUpdate(t)
  PROVE  AccountsIInv'
<1> DEFINE x == atx[t]
           u == x.user
<1>1. RowTypes /\ TxOK(x) /\ x.pc = "commit" /\ u \in Users
  BY OpenTx DEF AccountsIInv, CommitUpdate, TxOK, TxState
<1>2. /\ users' \in [Users -> Rows] /\ \A v \in Users \ {u} : users'[v] = users[v]
      /\ users[u] \in Row => users'[u] \in Row
  BY <1>1, CommittedRow
<1>3. /\ SignsOut(t) => epoch' = [epoch EXCEPT ![u] = epoch[u] + 1]
      /\ ~SignsOut(t) => /\ epoch' = epoch
                         /\ users'[u].role = users[u].role
                         /\ users[u].active => users'[u].active
  BY <1>1, QuietCommit
<1>4. /\ epoch' \in [Users -> Nat] /\ \A v \in Users : epoch[v] <= epoch'[v]
      /\ \A v \in Users \ {u} : epoch'[v] = epoch[v]
  BY <1>1, <1>3 DEF RowTypes
<1>5. /\ sessions' \in Seq(Session) /\ DOMAIN sessions' = DOMAIN sessions
      /\ \A s \in DOMAIN sessions :
           /\ sessions'[s].user = sessions[s].user /\ sessions'[s].role = sessions[s].role
           /\ sessions'[s].epoch = sessions[s].epoch /\ sessions'[s].raced = sessions[s].raced
           /\ sessions'[s].revoked = (sessions[s].revoked \/ s \in x.mine)
  <2>1. PICK R : R = x.mine
    OBVIOUS
  <2>2. PICK k : k = Revoking(R)
    OBVIOUS
  <2>3. sessions' = k
    BY <2>1, <2>2 DEF CommitUpdate, Revoking
  <2> QED
    BY <1>1, <2>1, <2>2, <2>3, RevokedSessions
<1>6. \A s \in DOMAIN sessions : sessions[s].user \in Users
  BY <1>1, SessionFields
<1>7. /\ \A o \in AccountTx : atx'[o] = IF o = t THEN NoAccountTx ELSE atx[o]
      /\ atx' \in [AccountTx -> TxState \cup {NoAccountTx}]
  BY DEF CommitUpdate, EndTx, AccountsIInv
<1>8. RowTypes'
  <2>1. overtaken' \in BOOLEAN
    BY DEF CommitUpdate
  <2>2. ASSUME NEW s \in DOMAIN sessions' PROVE sessions'[s].epoch <= epoch'[sessions'[s].user]
    <3>1. sessions[s].epoch <= epoch[sessions[s].user] /\ sessions[s].epoch \in Nat
      BY <1>1, <1>5, <2>2, SessionFields
    <3>2. epoch[sessions[s].user] <= epoch'[sessions[s].user]
          /\ epoch[sessions[s].user] \in Nat /\ epoch'[sessions[s].user] \in Nat
      BY <1>1, <1>4, <1>5, <1>6, <2>2 DEF RowTypes
    <3> QED
      BY <1>5, <2>2, <3>1, <3>2
  <2> QED
    BY <1>2, <1>4, <1>5, <2>1, <2>2 DEF RowTypes
<1>9. RevocationIsComplete'
  <2> SUFFICES ASSUME NEW s \in DOMAIN sessions', ~sessions'[s].revoked, ~sessions'[s].raced
               PROVE  LET y == sessions'[s] IN
                        y.epoch = epoch'[y.user] /\ users'[y.user].active /\ users'[y.user].role = y.role
    BY DEF RevocationIsComplete, Live
  <2>1. /\ s \in DOMAIN sessions /\ ~sessions[s].revoked /\ ~sessions[s].raced /\ s \notin x.mine
        /\ sessions[s].user \in Users
    BY <1>5, <1>6
  <2>2. LET y == sessions[s] IN
          y.epoch = epoch[y.user] /\ users[y.user].active /\ users[y.user].role = y.role
    BY <2>1 DEF AccountsIInv, RevocationIsComplete, Live
  <2>3. sessions[s].user = u => ~SignsOut(t)
    BY <1>1, <2>1 DEF TxOK, Swept, SignsOut, MustSignOut, RoleChanges, Disables
  <2> QED
    BY <1>2, <1>3, <1>4, <1>5, <2>1, <2>2, <2>3
<1>10. TxsOK'
  <2> SUFFICES ASSUME NEW o \in AccountTx, atx'[o] # NoAccountTx PROVE TxOK(atx[o])'
    BY DEF TxsOK, TxOK, Phased, Covered, UpToDate, Swept, MustGuard, MustSignOut, ActiveAdmins
  <2> PICK k : k = atx[o]
    OBVIOUS
  <2>1. atx'[o] = k /\ TxOK(k) /\ o # t /\ atx[o].pc # "idle" /\ k.user \in Users
    BY <1>7, OpenTx DEF AccountsIInv, TxsOK, TxOK, TxState, TxPhases
  <2>2. Phased(k)'
    <3>1. k.epoch <= epoch'[k.user]
      <4>1. k.epoch \in Nat /\ k.epoch <= epoch[k.user]
        BY <2>1 DEF TxOK, TxState, Phased
      <4>2. epoch[k.user] \in Nat /\ epoch'[k.user] \in Nat /\ epoch[k.user] <= epoch'[k.user]
        BY <1>1, <1>4, <2>1 DEF RowTypes
      <4> QED
        BY <4>1, <4>2
    <3>2. users[k.user] \in Row => users'[k.user] \in Row
      BY <1>2, <2>1
    <3> QED
      BY <1>5, <2>1, <3>1, <3>2 DEF TxOK, Phased
  <2>3. Covered(k)'
    <3> SUFFICES ASSUME k.pc \in {"select", "commit"}, k.kind = "update", MustGuard(k)
                 PROVE  (k.locked \ {k.user}) \cap ActiveAdmins' # {}
      BY DEF Covered, MustGuard
    <3>1. PICK a \in (k.locked \ {k.user}) : a \in ActiveAdmins
      BY <2>1 DEF TxOK, Covered
    <3>2. a \in Users /\ users'[a] = users[a]
      BY <2>1, <3>1, LockedRowsStay DEF ActiveAdmins
    <3> QED
      BY <3>1, <3>2 DEF ActiveAdmins
  <2>4. UpToDate(k)'
    <3> SUFFICES ASSUME k.pc \in {"verify", "rotate"}, k.epoch = epoch'[k.user]
                 PROVE  users'[k.user].active /\ users'[k.user].role = k.saw.role
      BY DEF UpToDate
    <3>1. k.epoch <= epoch[k.user] /\ k.epoch \in Nat /\ epoch[k.user] \in Nat
      BY <1>1, <2>1 DEF TxOK, TxState, Phased, RowTypes
    <3>2. k.epoch = epoch[k.user] /\ (k.user = u => ~SignsOut(t))
      <4>1. CASE k.user # u
        BY <1>4, <2>1, <4>1
      <4>2. CASE k.user = u
        BY <1>1, <1>3, <3>1, <4>2 DEF RowTypes
      <4> QED
        BY <4>1, <4>2
    <3>3. users[k.user].active /\ users[k.user].role = k.saw.role
      BY <2>1, <3>2 DEF TxOK, UpToDate
    <3> QED
      BY <1>2, <1>3, <2>1, <3>2, <3>3
  <2>5. Swept(k)'
    BY <1>5, <2>1 DEF TxOK, Swept, MustSignOut
  <2> QED
    BY <2>1, <2>2, <2>3, <2>4, <2>5 DEF TxOK, Phased, Covered, UpToDate, Swept, MustGuard,
       MustSignOut, ActiveAdmins
<1> QED
  BY <1>7, <1>8, <1>9, <1>10, CommitKeepsAdmin DEF AccountsIInv

\* A new account is nobody's locked row, and nobody has signed in to it.
LEMMA InsertStep ==
  ASSUME AccountsIInv, NEW t \in AccountTx, NEW role \in Roles, InsertUser(t, role)
  PROVE  AccountsIInv'
<1> DEFINE u == atx[t].user
<1>1. RowTypes /\ u \in Users /\ users[u] = Missing /\ ~users[u].active
  BY OpenTx DEF AccountsIInv, InsertUser, TxOK, TxState, Present, Missing
<1>2. /\ users' = [users EXCEPT ![u] = Account(role)] /\ UNCHANGED <<sessions, epoch, overtaken>>
      /\ \A o \in AccountTx : atx'[o] = IF o = t THEN NoAccountTx ELSE atx[o]
      /\ atx' \in [AccountTx -> TxState \cup {NoAccountTx}]
  BY DEF InsertUser, EndTx, AccountsIInv
<1>3. Account(role) \in Row
  BY DEF Account, Row
<1>4. RowTypes'
  BY <1>1, <1>2, <1>3 DEF RowTypes, Rows
<1>5. \A v \in Users : users[v].active => users'[v] = users[v]
  BY <1>1, <1>2 DEF RowTypes
<1>6. AdminRemains'
  BY <1>2, <1>5 DEF AccountsIInv, AdminRemains, ActiveAdmins
<1>7. RevocationIsComplete'
  <2>1. \A s \in DOMAIN sessions : sessions[s].user \in Users
    BY <1>1, SessionFields
  <2> QED
    BY <1>2, <1>5, <2>1 DEF AccountsIInv, RevocationIsComplete, Live
<1>8. TxsOK'
  <2> SUFFICES ASSUME NEW o \in AccountTx, atx'[o] # NoAccountTx PROVE TxOK(atx[o])'
    BY DEF TxsOK, TxOK, Phased, Covered, UpToDate, Swept, MustGuard, MustSignOut, ActiveAdmins
  <2> PICK k : k = atx[o]
    OBVIOUS
  <2>1. atx'[o] = k /\ TxOK(k) /\ k.user \in Users
    BY <1>2 DEF AccountsIInv, TxsOK, TxOK, TxState
  <2>2. users[k.user] \in Row => users'[k.user] \in Row
    BY <1>1, <1>2, <1>3, <2>1 DEF RowTypes
  <2>3. Phased(k)' /\ Swept(k)'
    BY <1>2, <2>1, <2>2 DEF TxOK, Phased, Swept, MustSignOut
  <2>4. Covered(k)' /\ UpToDate(k)'
    BY <1>2, <1>5, <2>1 DEF TxOK, Covered, UpToDate, MustGuard, ActiveAdmins
  <2> QED
    BY <2>1, <2>3, <2>4 DEF TxOK, Phased, Covered, UpToDate, Swept, MustGuard, MustSignOut,
       ActiveAdmins
<1> QED
  BY <1>2, <1>4, <1>6, <1>7, <1>8 DEF AccountsIInv

-----------------------------------------------------------------------------
(* The invariant is inductive *)

\* Every statement and every commit of an open transaction keeps the invariant.
LEMMA AccountsStep == AccountsIInv /\ [AccountsNext]_accountVars => AccountsIInv'
<1> SUFFICES ASSUME AccountsIInv, [AccountsNext]_accountVars PROVE AccountsIInv'
  OBVIOUS
<1>0. RowTypes /\ \A u \in Users : users[u] \in Rows
  BY DEF AccountsIInv, RowTypes
<1>1. ASSUME NEW s \in DOMAIN sessions, Logout(s) PROVE AccountsIInv'
  BY <1>1, LogoutStep
<1>2. ASSUME NEW t \in AccountTx,
             \/ LoginCommit(t) \/ RefreshOwner(t) \/ RefreshCommit(t) \/ FlushPassword(t)
             \/ SelectSessions(t) \/ GuardAdmins(t) \/ CommitUpdate(t) \/ AbortTx(t)
      PROVE  AccountsIInv'
  <2>1. CASE LoginCommit(t)
    BY <2>1, MintStep DEF LoginCommit
  <2>2. CASE RefreshCommit(t)
    BY <2>2, MintStep DEF RefreshCommit
  <2>3. CASE RefreshOwner(t) \/ FlushPassword(t) \/ SelectSessions(t) \/ GuardAdmins(t) \/ AbortTx(t)
    BY <2>3, StatementStep
  <2>4. CASE CommitUpdate(t)
    BY <2>4, CommitStep
  <2> QED
    BY <1>2, <2>1, <2>2, <2>3, <2>4
<1>3. ASSUME NEW t \in AccountTx, NEW s \in DOMAIN sessions, RefreshRead(t, s)
      PROVE  AccountsIInv'
  <2> DEFINE u == sessions[s].user
             k == [kind |-> "refresh", pc |-> "owner", user |-> u, saw |-> Missing,
                   want |-> Missing, epoch |-> epoch[u], parent |-> s, mine |-> {},
                   updated |-> {}, locked |-> {}]
  <2>1. u \in Users /\ s \in Nat /\ epoch[u] \in Nat
    BY <1>0, SessionFields
  <2>2. k \in TxState
    BY <2>1 DEF TxState, TxKinds, TxPhases, Rows
  <2>3. Phased(k) /\ Covered(k) /\ UpToDate(k) /\ Swept(k)
    BY <2>1 DEF Phased, Covered, UpToDate, Swept
  <2>4. atx' = [atx EXCEPT ![t] = k] /\ UNCHANGED <<users, sessions, epoch, overtaken>>
    BY <1>3 DEF RefreshRead
  <2> HIDE DEF k
  <2> QED
    BY <2>2, <2>3, <2>4, LocalStep DEF TxOK
<1>4. ASSUME NEW t \in AccountTx, NEW u \in Users,
             LoginRead(t, u) \/ SignOutEverywhere(t, u) \/ ChangePassword(t, u) \/ CreateUser(t, u)
      PROVE  AccountsIInv'
  <2>1. CASE LoginRead(t, u)
    BY <1>0, <2>1, BeginStep DEF LoginRead, TxKinds
  <2>2. CASE SignOutEverywhere(t, u)
    BY <1>0, <2>2, BeginStep DEF SignOutEverywhere, TxKinds
  <2>3. CASE ChangePassword(t, u)
    BY <1>0, <2>3, BeginStep DEF ChangePassword, TxKinds
  <2>4. CASE CreateUser(t, u)
    BY <1>0, <2>4, BeginStep DEF CreateUser, TxKinds, Rows
  <2> QED
    BY <1>4, <2>1, <2>2, <2>3, <2>4
<1>5. ASSUME NEW t \in AccountTx, NEW u \in Users, NEW role \in Roles, NEW active \in BOOLEAN,
             UpdateUser(t, u, role, active)
      PROVE  AccountsIInv'
  <2> DEFINE want == [users[u] EXCEPT !.role = role, !.active = active]
  <2>1. users[u] \in Row
    BY <1>0, <1>5, ActiveIsRow DEF UpdateUser, Present
  <2>2. want \in Row
    BY <2>1 DEF Row
  <2>3. Begin(t, "update", u, want, "guard")
    BY <1>5 DEF UpdateUser
  <2> HIDE DEF want
  <2> QED
    BY <2>1, <2>2, <2>3, BeginStep DEF TxKinds, Rows
<1>6. ASSUME NEW t \in AccountTx, NEW role \in Roles, InsertUser(t, role) PROVE AccountsIInv'
  BY <1>6, InsertStep
<1>7. CASE UNCHANGED accountVars
  BY <1>7 DEF accountVars, AccountsIInv, RowTypes, TxsOK, TxOK, Phased, Covered, UpToDate, Swept,
     MustGuard, MustSignOut, ActiveAdmins, AdminRemains, RevocationIsComplete, Live
<1> QED
  BY <1>1, <1>2, <1>3, <1>4, <1>5, <1>6, <1>7 DEF AccountsNext

\* In every reachable state the strengthened invariant holds.
LEMMA AccountsInvariant == AccountsSpec => []AccountsIInv
  BY AccountsInitIInv, AccountsStep, PTL DEF AccountsSpec

-----------------------------------------------------------------------------
(* Results *)

\* Whatever administrators do to each other at the same time, one of them remains
\* active, unless an account was disabled on the word of a role it no longer had
\* (services/auth.py _refuse_if_last_admin and its callers).
THEOREM AnAdminAlwaysRemains == AccountsSpec => []AdminRemains
<1>1. AccountsIInv => AdminRemains
  BY DEF AccountsIInv
<1> QED
  BY <1>1, AccountsInvariant, PTL

\* A guarded demotion or disabling that has passed its check keeps another active
\* administrator locked until it ends (repositories/users.py lock_active_admins).
THEOREM GuardsNeverCross == AccountsSpec => []GuardHolds
<1>1. ASSUME AccountsIInv, NEW t \in AccountTx, atx[t].pc \in {"select", "commit"},
             atx[t].kind = "update", Guarded(t)
      PROVE  (atx[t].locked \ {atx[t].user}) \cap ActiveAdmins # {}
  BY <1>1, OpenTx DEF TxOK, Covered, MustGuard, Guarded, Demotes, Disables
<1>2. AccountsIInv => GuardHolds
  BY <1>1 DEF GuardHolds
<1> QED
  BY <1>2, AccountsInvariant, PTL

\* Being signed out is final, whichever sign-ins, rotations and changes of an account
\* overlap, for every session that was not minted during a sign-out.
THEOREM SignOutIsFinal == AccountsSpec => []RevocationIsComplete
<1>1. AccountsIInv => RevocationIsComplete
  BY DEF AccountsIInv
<1> QED
  BY <1>1, AccountsInvariant, PTL

\* The state keeps its shape; no session is of a revocation yet to come.
THEOREM AccountsTyped == AccountsSpec => []AccountsTypeOK
<1>1. ASSUME AccountsIInv PROVE AccountsTypeOK
  <2>1. ASSUME NEW u \in Users
        PROVE  users[u] = Missing \/ (users[u].role \in Roles /\ users[u].active \in BOOLEAN)
    <3>1. CASE users[u] = Missing
      BY <3>1
    <3>2. CASE users[u] # Missing
      <4>1. users[u] \in Row
        BY <1>1, <3>2, ActiveIsRow DEF AccountsIInv
      <4> QED
        BY <4>1, RowFields
    <3> QED
      BY <3>1, <3>2
  <2>2. ASSUME NEW s \in DOMAIN sessions
        PROVE  /\ sessions[s].user \in Users /\ sessions[s].role \in Roles
               /\ sessions[s].epoch \in 0..epoch[sessions[s].user]
    BY <1>1, SessionFields DEF AccountsIInv
  <2>3. ASSUME NEW t \in AccountTx
        PROVE  atx[t].pc \in TxPhases /\ (atx[t].pc # "idle" => atx[t].mine \subseteq DOMAIN sessions)
    <3>1. CASE atx[t] = NoAccountTx
      BY <3>1 DEF NoAccountTx, TxPhases
    <3>2. CASE TxOK(atx[t])
      BY <3>2 DEF TxOK, TxState, Phased
    <3> QED
      BY <1>1, <3>1, <3>2 DEF AccountsIInv, TxsOK
  <2> QED
    BY <1>1, <2>1, <2>2, <2>3 DEF AccountsTypeOK, AccountsIInv, RowTypes
<1> QED
  BY <1>1, AccountsInvariant, PTL
=============================================================================
