-------------------------------- MODULE Accounts --------------------------------
(* The administrator's password and the other accounts (handler/users.go, the end
   of handler/auth.go, initAuthAndSession of cmd/waf/main.go).  The administrator's
   hash is kept in memory and in system_config, the others in the table users,
   which is asked first: a row with the administrator's name hides the hash.    *)
EXTENDS Integers

CONSTANTS
  Callers,            \* requests of APIChangePassword
  AdminName, Others,  \* account names
  Passwords,
  FirstPasswords,     \* passwords config.yaml may hold in clear, "" for none
  MaxPasswordChanges, \* passwordChangeAttempts that are let through, of all addresses
  MaxUserChanges,     \* bound: changes of the table users
  MaxAccountErrors    \* bound: failing statements

\* A new password has at least eight characters.
ASSUME AccountsAssumption == "" \notin Passwords

Accounts == {AdminName} \cup Others
NoUser == [password |-> "", enabled |-> FALSE, exists |-> FALSE]

VARIABLES
  yaml,          \* the password in config.yaml
  adminHash,     \* Config.Admin.PasswordHash, "" for none
  hashRow,       \* admin_password_hash in system_config, "" for none
  users,         \* rows of the table users
  change,        \* caller -> its step and the password it asks for
  attempts, userChanges, accountErrors,
  disturbed      \* two changes were in progress at once, or a statement failed

accountVars == <<yaml, adminHash, hashRow, users, change, attempts, userChanges, accountErrors,
                 disturbed>>

Unasked == [pc |-> "idle", password |-> ""]

YamlFirst(row) == IF yaml # "" THEN yaml ELSE row
\* A clear password is hashed and stored when no row is found.
HashAtStart(row) == IF row # "" THEN row ELSE yaml

AccountsInit ==
  /\ yaml \in FirstPasswords /\ hashRow = yaml /\ adminHash = yaml
  /\ users = [u \in Accounts |-> NoUser] /\ change = [c \in Callers |-> Unasked]
  /\ attempts = 0 /\ userChanges = 0 /\ accountErrors = 0 /\ disturbed = FALSE

AccountFails == accountErrors < MaxAccountErrors /\ accountErrors' = accountErrors + 1

ValidateUserCredentials(hash, name, password) ==
  IF users[name].exists THEN users[name].enabled /\ users[name].password = password
  ELSE name = AdminName /\ hash # "" /\ hash = password

\* isPasswordChangeBlocked counts the attempts, right or wrong; the old password is
\* compared with the hash in memory.
CheckOldPassword(c) ==
  /\ change[c].pc = "idle" /\ attempts < MaxPasswordChanges /\ attempts' = attempts + 1
  /\ \E old, new \in Passwords :
       IF adminHash # "" /\ old = adminHash
       THEN change' = [change EXCEPT ![c] = [pc |-> "checked", password |-> new]]
       ELSE UNCHANGED change
  /\ disturbed' = (disturbed \/ (change' # change /\ \E d \in Callers : change[d].pc # "idle"))
  /\ UNCHANGED <<yaml, adminHash, hashRow, users, userChanges, accountErrors>>

SetHash(c) ==
  /\ change[c].pc = "checked" /\ adminHash' = change[c].password
  /\ change' = [change EXCEPT ![c].pc = "set"]
  /\ UNCHANGED <<yaml, hashRow, users, attempts, userChanges, accountErrors, disturbed>>

\* An error is only logged; the caller is told that the password was changed.
UpdateHashRow(c) ==
  /\ change[c].pc = "set" /\ change' = [change EXCEPT ![c] = Unasked]
  /\ \/ hashRow' = (IF hashRow = "" THEN "" ELSE change[c].password)
        /\ UNCHANGED <<accountErrors, disturbed>>
     \/ AccountFails /\ disturbed' = TRUE /\ UNCHANGED hashRow
  /\ UNCHANGED <<yaml, adminHash, users, attempts, userChanges>>

APIChangePassword ==
  \E c \in Callers : CheckOldPassword(c) \/ SetHash(c) \/ UpdateHashRow(c)

ChangesUsers(u, row) ==
  /\ userChanges < MaxUserChanges /\ userChanges' = userChanges + 1
  /\ users' = [users EXCEPT ![u] = row]
  /\ UNCHANGED <<yaml, adminHash, hashRow, change, attempts, accountErrors, disturbed>>

APIUserAdd ==
  \E u \in Accounts, p \in Passwords :
    ~users[u].exists /\ ChangesUsers(u, [password |-> p, enabled |-> TRUE, exists |-> TRUE])
APIUserDelete == \E u \in Accounts : users[u].exists /\ ChangesUsers(u, NoUser)
APIUserToggle ==
  \E u \in Accounts, on \in BOOLEAN : users[u].exists /\ ChangesUsers(u, [users[u] EXCEPT !.enabled = on])
APIPasswordChangeForUser ==
  \E u \in Accounts, p \in Passwords :
    users[u].exists /\ ChangesUsers(u, [users[u] EXCEPT !.password = p])

\* The process may end between any two steps of a call; a read that fails at the
\* start counts as no row, and an INSERT that fails is only logged.
RestartAccounts ==
  /\ change' = [c \in Callers |-> Unasked] /\ attempts' = 0
  /\ \/ /\ adminHash' = HashAtStart(hashRow) /\ hashRow' = adminHash'
        /\ UNCHANGED <<accountErrors, disturbed>>
     \/ /\ AccountFails /\ disturbed' = TRUE /\ adminHash' = yaml
        /\ hashRow' \in {hashRow, IF yaml = "" THEN hashRow ELSE yaml}
  /\ UNCHANGED <<yaml, users, userChanges>>

AccountsNext ==
  APIChangePassword \/ APIUserAdd \/ APIUserDelete \/ APIUserToggle \/ APIPasswordChangeForUser
    \/ RestartAccounts

AccountsSpec == AccountsInit /\ [][AccountsNext]_accountVars
-------------------------------------------------------------------------------
\* Once the calls that change the administrator's password have returned, the next
\* start lets everyone in with the passwords that are in force now, whatever
\* config.yaml still holds, unless two of the calls overlapped or a statement failed
\* (APIChangePassword, initAuthAndSession, ValidateUserCredentials).
RestartKeepsPasswords ==
  (~disturbed /\ \A c \in Callers : change[c].pc = "idle") =>
    \A u \in Accounts, p \in Passwords :
      ValidateUserCredentials(HashAtStart(hashRow), u, p) <=> ValidateUserCredentials(adminHash, u, p)
=============================================================================
