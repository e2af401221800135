------------------------------ MODULE Accounts ------------------------------
(***************************************************************************)
(* User accounts and sign-in sessions: services/auth.py,                   *)
(* repositories/users.py and their routes.  Every request is one READ      *)
(* COMMITTED transaction of a few statements.  A plain SELECT takes no     *)
(* lock, a flushed UPDATE keeps its row until the transaction ends, and    *)
(* SELECT ... FOR UPDATE also keeps out the foreign key of a new session.  *)
(* A blocked statement is a disabled action; Abort ends a transaction for  *)
(* any other reason: an error, a deadlock, a dropped connection.           *)
(* Whether a password is right, and whether the account is locked out      *)
(* is left open: any sign-in may be refused.                               *)
(***************************************************************************)
EXTENDS Integers, FiniteSets, Sequences

CONSTANTS Users, Bootstrap,    \* accounts, and the one seed_database creates
          AccountTx,           \* transactions that may be open at a time
          MaxSessions,         \* bound: sessions ever created
          MaxRevocations       \* bound: revocations of all sessions of one user

ASSUME AccountBounds ==
  /\ Bootstrap \in Users
  /\ MaxSessions \in Nat /\ MaxRevocations \in Nat

VARIABLES users,      \* committed rows: a row, or Missing
          sessions,   \* committed refresh sessions, in order of creation
          atx,        \* the open transactions
          epoch,      \* history: revocations of all sessions of a user
          overtaken   \* history: an account was disabled on a row read before it changed

accountVars == <<users, sessions, atx, epoch, overtaken>>

Roles == {"admin", "other"}
Account(role) == [role |-> role, active |-> TRUE]
Missing == [role |-> "none", active |-> FALSE]
NoAccountTx == [pc |-> "idle"]

AccountsInit ==
  /\ users = [u \in Users |-> IF u = Bootstrap THEN Account("admin") ELSE Missing]
  /\ sessions = <<>>
  /\ atx = [t \in AccountTx |-> NoAccountTx]
  /\ epoch = [u \in Users |-> 0]
  /\ overtaken = FALSE

Present(u) == users[u] # Missing
ActiveAdmins == {u \in Users : users[u].active /\ users[u].role = "admin"}
Live(s) == ~sessions[s].revoked
LiveOf(u) == {s \in DOMAIN sessions : sessions[s].user = u /\ Live(s)}

(* What verify_session_on_request checks of a bearer token. *)
SignedIn(u) == LiveOf(u) # {}
AdminSignedIn == \E s \in DOMAIN sessions : Live(s) /\ sessions[s].role = "admin"

(***************************************************************************)
(* Row locks.                                                              *)
(***************************************************************************)
Others(t) == {o \in AccountTx \ {t} : atx[o].pc # "idle"}
MayUpdate(t, u) == \A o \in Others(t) : u \notin atx[o].updated \cup atx[o].locked
MayReference(t, u) == \A o \in Others(t) : u \notin atx[o].locked

Begin(t, kind, u, want, pc) ==
  /\ atx[t].pc = "idle"
  /\ atx' = [atx EXCEPT ![t] =
       [kind |-> kind, pc |-> pc, user |-> u, saw |-> users[u], want |-> want,
        epoch |-> epoch[u], parent |-> 0, mine |-> {}, updated |-> {}, locked |-> {}]]
  /\ UNCHANGED <<users, sessions, epoch, overtaken>>

EndTx(t) == atx' = [atx EXCEPT ![t] = NoAccountTx]

(***************************************************************************)
(* What a transaction that changes an account is about to do.              *)
(***************************************************************************)
\* Broken variant: a change of role leaves the sessions alone.
DisablesOnly(t) == atx[t].kind # "update" \/ (atx[t].saw.active /\ ~atx[t].want.active)

Demotes(t) == atx[t].saw.role = "admin" /\ atx[t].want.role # "admin"
Disables(t) == atx[t].saw.active /\ ~atx[t].want.active
RoleChanges(t) == atx[t].saw.role # atx[t].want.role
SignsOut(t) == atx[t].kind # "update" \/ RoleChanges(t) \/ Disables(t)

(* The guard is taken on the role that was read, not on the role that is.  *)
Guarded(t) == Demotes(t) \/ (Disables(t) /\ atx[t].want.role = "admin")

(***************************************************************************)
(* Sign-in, rotation and sign-out.                                         *)
(***************************************************************************)
(* Raced: minted while another transaction was signing the user out.       *)
Mint(t, revokedToo) ==
  LET u == atx[t].user
      raced == \/ atx[t].epoch # epoch[u]
               \/ \E o \in Others(t) :
                    atx[o].user = u /\ atx[o].pc = "commit" /\ SignsOut(o)
      kept == [s \in DOMAIN sessions |->
                 [sessions[s] EXCEPT !.revoked = @ \/ s \in revokedToo]]
  IN  /\ Len(sessions) < MaxSessions
      /\ MayReference(t, u)
      /\ sessions' = Append(kept, [user |-> u, role |-> atx[t].saw.role,
                                   epoch |-> atx[t].epoch, revoked |-> FALSE,
                                   raced |-> raced])

LoginRead(t, u) ==
  /\ users[u].active
  /\ Begin(t, "login", u, users[u], "verify")

(* The time of the sign-in is written to the account's row. *)
LoginCommit(t) ==
  /\ atx[t].pc = "verify"
  /\ MayUpdate(t, atx[t].user)
  /\ Mint(t, {})
  /\ EndTx(t)
  /\ UNCHANGED <<users, epoch, overtaken>>

RefreshRead(t, s) ==
  /\ s \in DOMAIN sessions /\ Live(s)
  /\ LET u == sessions[s].user IN
       /\ atx[t].pc = "idle"
       /\ atx' = [atx EXCEPT ![t] =
            [kind |-> "refresh", pc |-> "owner", user |-> u, saw |-> Missing,
             want |-> Missing, epoch |-> epoch[u], parent |-> s, mine |-> {},
             updated |-> {}, locked |-> {}]]
  /\ UNCHANGED <<users, sessions, epoch, overtaken>>

RefreshOwner(t) ==
  /\ atx[t].pc = "owner"
  /\ users[atx[t].user].active
  /\ atx' = [atx EXCEPT ![t].saw = users[atx[t].user], ![t].pc = "rotate"]
  /\ UNCHANGED <<users, sessions, epoch, overtaken>>

(* The record read before is revoked, whoever has revoked it since. *)
RefreshCommit(t) ==
  /\ atx[t].pc = "rotate"
  /\ Mint(t, {atx[t].parent})
  /\ EndTx(t)
  /\ UNCHANGED <<users, epoch, overtaken>>

(* One row, idempotent: read and commit are one step. *)
Logout(s) ==
  /\ s \in DOMAIN sessions /\ Live(s)
  /\ sessions' = [sessions EXCEPT ![s].revoked = TRUE]
  /\ UNCHANGED <<users, atx, epoch, overtaken>>

(***************************************************************************)
(* Statements that change a user and sign it out.                          *)
(***************************************************************************)
SignOutEverywhere(t, u) ==
  /\ SignedIn(u) /\ epoch[u] < MaxRevocations
  /\ Begin(t, "signout", u, users[u], "select")

ChangePassword(t, u) ==
  /\ SignedIn(u) /\ epoch[u] < MaxRevocations
  /\ Begin(t, "password", u, users[u], "flush")

(* The new hash is flushed before the sessions are selected. *)
FlushPassword(t) ==
  /\ atx[t].pc = "flush"
  /\ MayUpdate(t, atx[t].user)
  /\ atx' = [atx EXCEPT ![t].updated = {atx[t].user}, ![t].pc = "select"]
  /\ UNCHANGED <<users, sessions, epoch, overtaken>>

(* revoke_all_for_user selects now what it will have revoked at commit. *)
SelectSessions(t) ==
  /\ atx[t].pc = "select"
  /\ atx' = [atx EXCEPT ![t].mine = LiveOf(atx[t].user), ![t].pc = "commit"]
  /\ UNCHANGED <<users, sessions, epoch, overtaken>>

UpdateUser(t, u, role, active) ==
  /\ AdminSignedIn /\ Present(u) /\ epoch[u] < MaxRevocations
  /\ <<role, active>> # <<users[u].role, users[u].active>>
  /\ Begin(t, "update", u, [users[u] EXCEPT !.role = role, !.active = active], "guard")

\* Broken variant: the administrators are counted without a lock.
GuardAdminsUnlocked(t) ==
  /\ atx[t].pc = "guard"
  /\ Guarded(t) => ActiveAdmins \ {atx[t].user} # {}
  /\ RoleChanges(t) => MayUpdate(t, atx[t].user)
  /\ atx' = [atx EXCEPT ![t].updated = IF RoleChanges(t) THEN {atx[t].user} ELSE {},
                        ![t].pc = IF SignsOut(t) THEN "select" ELSE "commit"]
  /\ UNCHANGED <<users, sessions, epoch, overtaken>>

(* A new role is flushed before the sessions are selected; the switch of   *)
(* an account after it, so that only a guard has locked the row by then.   *)
GuardAdmins(t) ==
  /\ atx[t].pc = "guard"
  /\ Guarded(t) => /\ \A a \in ActiveAdmins : MayUpdate(t, a)
                   /\ ActiveAdmins \ {atx[t].user} # {}
  /\ RoleChanges(t) => MayUpdate(t, atx[t].user)
  /\ atx' = [atx EXCEPT ![t].locked = IF Guarded(t) THEN ActiveAdmins ELSE {},
                        ![t].updated = IF RoleChanges(t) THEN {atx[t].user} ELSE {},
                        ![t].pc = IF SignsOut(t) THEN "select" ELSE "commit"]
  /\ UNCHANGED <<users, sessions, epoch, overtaken>>

(* Only the columns this transaction changed are written. *)
CommitUpdate(t) ==
  /\ atx[t].pc = "commit"
  /\ LET u == atx[t].user
         saw == atx[t].saw
         want == atx[t].want
     IN  /\ saw # want => MayUpdate(t, u)
         /\ users' = [users EXCEPT
              ![u].role = IF RoleChanges(t) THEN want.role ELSE @,
              ![u].active = IF saw.active # want.active THEN want.active ELSE @]
         /\ overtaken' = (overtaken \/ (Disables(t) /\ saw.role # users[u].role))
         /\ epoch' = [epoch EXCEPT ![u] = IF SignsOut(t) THEN @ + 1 ELSE @]
  /\ sessions' = [s \in DOMAIN sessions |->
                    [sessions[s] EXCEPT !.revoked = @ \/ s \in atx[t].mine]]
  /\ EndTx(t)

(***************************************************************************)
(* New accounts: looked up by address, then inserted; the unique index     *)
(* refuses the second of two.                                              *)
(***************************************************************************)
CreateUser(t, u) ==
  /\ AdminSignedIn /\ ~Present(u)
  /\ Begin(t, "create", u, Missing, "insert")

InsertUser(t, role) ==
  /\ atx[t].pc = "insert" /\ ~Present(atx[t].user)
  /\ users' = [users EXCEPT ![atx[t].user] = Account(role)]
  /\ EndTx(t)
  /\ UNCHANGED <<sessions, epoch, overtaken>>

AbortTx(t) ==
  /\ atx[t].pc # "idle"
  /\ EndTx(t)
  /\ UNCHANGED <<users, sessions, epoch, overtaken>>

AccountsNext ==
  \/ \E s \in DOMAIN sessions : Logout(s)
  \/ \E t \in AccountTx :
       \/ LoginCommit(t) \/ RefreshOwner(t) \/ RefreshCommit(t)
       \/ FlushPassword(t) \/ SelectSessions(t) \/ GuardAdmins(t) \/ CommitUpdate(t) \/ AbortTx(t)
       \/ \E s \in DOMAIN sessions : RefreshRead(t, s)
       \/ \E u \in Users :
            \/ LoginRead(t, u) \/ SignOutEverywhere(t, u) \/ ChangePassword(t, u)
            \/ CreateUser(t, u)
            \/ \E role \in Roles, active \in BOOLEAN : UpdateUser(t, u, role, active)
       \/ \E role \in Roles : InsertUser(t, role)

AccountsSpec == AccountsInit /\ [][AccountsNext]_accountVars

-----------------------------------------------------------------------------
(***************************************************************************)
(* Properties                                                              *)
(***************************************************************************)
TxPhases == {"idle", "verify", "owner", "rotate", "guard", "flush", "select", "commit",
             "insert"}

(* The shape of the state. *)
AccountsTypeOK ==
  /\ \A u \in Users : \/ users[u] = Missing
                      \/ users[u].role \in Roles /\ users[u].active \in BOOLEAN
  /\ \A s \in DOMAIN sessions :
       /\ sessions[s].user \in Users /\ sessions[s].role \in Roles
       /\ sessions[s].epoch \in 0..epoch[sessions[s].user]
  /\ \A t \in AccountTx : /\ atx[t].pc \in TxPhases
                          /\ atx[t].pc # "idle" => atx[t].mine \subseteq DOMAIN sessions
  /\ epoch \in [Users -> Nat]
  /\ overtaken \in BOOLEAN

(* Somebody can always administer the system, unless an account was        *)
(* disabled by a transaction that had read another role of it than the one *)
(* it then overwrote: such a one skips the guard (services/auth.py         *)
(* _refuse_if_last_admin; the lock is taken only on a stale role's word).  *)
AdminRemains == ActiveAdmins # {} \/ overtaken

(* Two guarded transactions never both count on the other's account: an    *)
(* administrator somebody relies on stays one until that transaction ends. *)
GuardHolds ==
  \A t \in AccountTx :
    atx[t].pc \in {"select", "commit"} /\ atx[t].kind = "update" /\ Guarded(t)
      => (atx[t].locked \ {atx[t].user}) \cap ActiveAdmins # {}

(* Being signed out is final: a session that is live was minted after the  *)
(* last time its user was signed out everywhere, its user is enabled and   *)
(* has the role the token says, unless it was minted while a transaction   *)
(* was signing the user out (admin.py update_user, auth.py set_role).      *)
RevocationIsComplete ==
  \A s \in DOMAIN sessions :
    Live(s) => \/ sessions[s].raced
               \/ /\ sessions[s].epoch = epoch[sessions[s].user]
                  /\ users[sessions[s].user].active
                  /\ users[sessions[s].user].role = sessions[s].role
=============================================================================
