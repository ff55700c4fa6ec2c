---------------------------- MODULE Notification ----------------------------
(* Where alerts go and what raises them (infra/notify/notify.go and
   gateway/handler/notify.go): the table of alert rules, loaded after each
   operation like those of the other managers, and the one row of settings, which
   is written and then put in force. The password of the mail account is encrypted
   in the row, with the key of GOWAF_NOTIFY_KEY or one made at every start, and
   shown as "******", which stands for "as it is" when it comes back.

   Of the settings only the password is kept. Whether alerts are due is the
   subject of Alerts.                                                         *)
EXTENDS SecurityRules

VARIABLES
  keyIsSet,      \* the environment has a key
  mailRow,       \* what the password in the row decrypts to with the key in use
  mailPassword,  \* the password that mails are sent with
  mailGiven      \* the last one an administrator gave and was told is saved

notificationVars == <<keyIsSet, mailRow, mailPassword, mailGiven>>

MailPasswords == {"", "secret"}

NotificationInit ==
  keyIsSet \in BOOLEAN /\ mailRow = "" /\ mailPassword = "" /\ mailGiven = ""

----------------------------------------------------------------------------
\* A rule without a number is given one; that of a rule that is there replaces it.
UpdateAlertRule(o, r) == \E on \in BOOLEAN : Write(o, "alerts", r, Rule(on))
DeleteAlertRule(o, r) == Write(o, "alerts", r, Null)

\* The mask is replaced by the password in force, before the row is written.
UnmaskPassword(o) ==
  /\ Starts(o, "saveMail", {"mail"}, mailPassword)
  /\ UNCHANGED <<tableVars, stale, botVars, notificationVars>>
GivePassword(o) ==
  /\ \E p \in MailPasswords : Starts(o, "saveMail", {"mail"}, p)
  /\ UNCHANGED <<tableVars, stale, botVars, notificationVars>>
UpdateNotifyConfig(o) == UnmaskPassword(o) \/ GivePassword(o)

\* SaveConfig: the row, then memory. A statement that fails ends it.
ExecConfig(o) ==
  /\ OperationAt(o, "saveMail")
  /\ \/ /\ mailRow' = operation[o].read
        /\ Continue(o, [operation[o] EXCEPT !.pc = "storeMail"])
     \/ Continue(o, Idling) /\ UNCHANGED mailRow
  /\ UNCHANGED <<tableVars, stale, ruleChanges, botVars, keyIsSet, mailPassword, mailGiven>>
SaveConfig(o) ==
  /\ OperationAt(o, "storeMail")
  /\ mailPassword' = operation[o].read
  /\ mailGiven' = operation[o].read
  /\ stale' = IF operation[o].alone THEN stale \ {"mail"} ELSE stale \cup {"mail"}
  /\ Continue(o, Idling)
  /\ UNCHANGED <<tableVars, ruleChanges, botVars, keyIsSet, mailRow>>

\* loadConfig, at a start: what cannot be decrypted is the password from then on,
\* and is encrypted anew.
LoadedPassword == IF keyIsSet \/ mailRow = "" THEN mailRow ELSE "undeciphered"
NotificationRestarts ==
  /\ mailRow' = LoadedPassword /\ mailPassword' = LoadedPassword
  /\ mailGiven' = IF \/ "mail" \in stale
                     \/ \E o \in Operators : operation[o].pc \in {"saveMail", "storeMail"}
                  THEN LoadedPassword ELSE mailGiven
  /\ UNCHANGED keyIsSet

----------------------------------------------------------------------------
\* Mails are sent with the password of the row, and with the one that was given
\* last when the key outlives the process.
PasswordIsKept ==
  /\ mailPassword = mailRow
  /\ keyIsSet => mailPassword = mailGiven
=============================================================================
