---------------------------------- MODULE Accounts -----------------------------
(***************************************************************************)
(* Accounts: signing up, the log-in's second factor, the codes that reset  *)
(* a password and prove an address (auth.service.ts), what administrators  *)
(* do to customers (user.service.ts) and the staff's invitations           *)
(* (user.team.service.ts).                                                 *)
(*                                                                         *)
(* Nearly every call reads the row, decides, hashes or renders something   *)
(* and then updates the row by its id, so that another call may have       *)
(* changed the row in between.  Secrets (passwords, codes, tokens) are the *)
(* number of the call that made them, 0 where the column is null; all are  *)
(* taken to be different.  Time is left out: a secret past its date is     *)
(* refused, which changes nothing.  Whoever calls knows the password.      *)
(***************************************************************************)
EXTENDS Calls

CONSTANTS
    Account,
    Email,
    UserName

VARIABLES
    accounts,    \* id -> row
    wallets,     \* accounts with a row in user_wallets
    spent        \* reset codes a password has been set with (history)

accountVars == <<accounts, wallets, spent>>

NoAccount == [email |-> "none"]

Secret == 0 .. MaxRequests

\* User
AccountRow ==
    [email : Email, userName : UserName, role : {"USER", "STAFF"}, isVerified : BOOLEAN,
     isBanned : BOOLEAN, isFlagged : BOOLEAN, deleted : BOOLEAN, password : Secret,
     passwordResetOtp : Secret, emailVerificationToken : Secret, invitationToken : Secret,
     twoFactorSecret : Secret, twoFactorEnabled : BOOLEAN]

Enrolled == {i \in Account : accounts[i] # NoAccount}

Live(i) == i \in Enrolled /\ ~accounts[i].deleted

EmailTaken(e) == \E i \in Enrolled : accounts[i].email = e

NameTaken(n) == \E i \in Enrolled : accounts[i].userName = n

\* Secrets a call makes.
Fresh == requests + 1

NewAccount(email, name, role, password) ==
    [email |-> email, userName |-> name, role |-> role, isVerified |-> FALSE, isBanned |-> FALSE,
     isFlagged |-> FALSE, deleted |-> FALSE, password |-> password, passwordResetOtp |-> 0,
     emailVerificationToken |-> 0, invitationToken |-> 0, twoFactorSecret |-> 0,
     twoFactorEnabled |-> FALSE]

AccountInit ==
    /\ accounts \in [Account -> {NoAccount} \cup
          {NewAccount(e, n, r, 0) : e \in Email, n \in UserName, r \in {"USER", "STAFF"}}]
    /\ \A i, j \in Enrolled :
          i # j => accounts[i].email # accounts[j].email /\ accounts[i].userName # accounts[j].userName
    /\ wallets = {i \in Enrolled : accounts[i].role = "USER"}
    /\ spent = {}

\* A call that has read account i and will write the fields of patch.
Change(p, i, patch) ==
    /\ Begin(p, [at |-> "account.write", id |-> i, user |-> accounts[i], data |-> patch,
                 then |-> "idle"])
    /\ UNCHANGED accountVars

-------------------------------------------------------------------------------
(* New accounts                                                            *)

\* signup: the address is not in the table, be it of a deleted account; the name is random.
Signup(p, e, n) ==
    /\ ~EmailTaken(e)
    /\ Begin(p, [at |-> "account.insert", row |-> NewAccount(e, n, "USER", Fresh)])
    /\ UNCHANGED accountVars

\* createByAdmin: no account that is not deleted has the address or the name.
CreateByAdmin(p, e, n, markVerified) ==
    /\ \A i \in Enrolled : Live(i) => accounts[i].email # e /\ accounts[i].userName # n
    /\ Begin(p, [at |-> "account.insert",
                 row |-> [NewAccount(e, n, "USER", Fresh) EXCEPT !.isVerified = markVerified]])
    /\ UNCHANGED accountVars

\* inviteTeamMember
InviteTeamMember(p, e, n) ==
    /\ ~EmailTaken(e) /\ ~NameTaken(n)
    /\ Begin(p, [at |-> "account.insert",
                 row |-> [NewAccount(e, n, "STAFF", Fresh) EXCEPT !.invitationToken = Fresh]])
    /\ UNCHANGED accountVars

\* Faulty variant: the columns have no unique index, the tests made before are all there is.
IndexAllowsAny(row, i) == TRUE

\* The unique indexes of email and userName, row i apart.
IndexAllows(row, i) ==
    \A j \in Enrolled \ {i} : accounts[j].email # row.email /\ accounts[j].userName # row.userName

\* user.create: a violated index is an error of the call.
AccountInsert(p) ==
    /\ At(p, "account.insert")
    /\ LET row == calls[p].row
       IN  \E i \in Account \ Enrolled :
              /\ accounts' = IF IndexAllows(row, i) THEN [accounts EXCEPT ![i] = row] ELSE accounts
              /\ IF IndexAllows(row, i) /\ row.role = "USER"
                 THEN Goto(p, [at |-> "account.wallet", id |-> i])
                 ELSE Return(p)
    /\ UNCHANGED <<wallets, spent>>

\* createWallet, as called by signup and createByAdmin.
AccountWallet(p) ==
    /\ At(p, "account.wallet")
    /\ wallets' = wallets \cup {calls[p].id}
    /\ Return(p)
    /\ UNCHANGED <<accounts, spent>>

-------------------------------------------------------------------------------
(* Passwords and the second factor                                         *)

\* forgotPassword, forgotPasswordLink: the new code replaces the one before.
ForgotPassword(p, i) ==
    /\ Live(i)
    /\ Change(p, i, [passwordResetOtp |-> Fresh])

\* verifyOtp, resetPassword, resetPasswordLink: the code sent is the row's.
ResetPassword(p, i) ==
    /\ Live(i)
    /\ accounts[i].passwordResetOtp # 0
    /\ Change(p, i, [password |-> Fresh, passwordResetOtp |-> 0])

\* changePassword
ChangePassword(p, i) ==
    /\ Live(i)
    /\ Change(p, i, [password |-> Fresh])

\* setupTwoFactor: whatever the account's second factor is.
SetupTwoFactor(p, i) ==
    /\ i \in Enrolled
    /\ Change(p, i, [twoFactorSecret |-> Fresh])

\* verifyTwoFactor: the code is of the secret that was read.
VerifyTwoFactor(p, i) ==
    /\ i \in Enrolled
    /\ accounts[i].twoFactorSecret # 0
    /\ Change(p, i, [twoFactorEnabled |-> TRUE])

\* disableTwoFactor
DisableTwoFactor(p, i) ==
    /\ i \in Enrolled
    /\ accounts[i].twoFactorEnabled /\ accounts[i].twoFactorSecret # 0
    /\ Change(p, i, [twoFactorEnabled |-> FALSE, twoFactorSecret |-> 0])

-------------------------------------------------------------------------------
(* Addresses                                                               *)

\* changeEmail: the address is new and, deleted accounts included, nobody's; after its write
\* it goes on as sendVerificationEmail.
ChangeEmail(p, i, e) ==
    /\ Live(i)
    /\ ~EmailTaken(e)
    /\ Begin(p, [at |-> "account.write", id |-> i, user |-> accounts[i],
                 data |-> [email |-> e, isVerified |-> FALSE, emailVerificationToken |-> 0],
                 then |-> "email.send", fresh |-> Fresh])
    /\ UNCHANGED accountVars

\* sendVerificationEmail: only to an address that is not verified.
SendVerificationEmail(p, i) ==
    /\ Live(i)
    /\ ~accounts[i].isVerified
    /\ Change(p, i, [emailVerificationToken |-> Fresh])

\* The same, called by changeEmail.
EmailSend(p) ==
    /\ At(p, "email.send")
    /\ LET i == calls[p].id
       IN  IF Live(i) /\ ~accounts[i].isVerified
           THEN Goto(p, [at |-> "account.write", id |-> i, user |-> accounts[i],
                         data |-> [emailVerificationToken |-> calls[p].fresh],
                         then |-> "idle"])
           ELSE Return(p)
    /\ UNCHANGED accountVars

\* verifyEmail: the account is found by the token.
VerifyEmail(p, i) ==
    /\ i \in Enrolled
    /\ accounts[i].emailVerificationToken # 0
    /\ Change(p, i, [isVerified |-> TRUE, emailVerificationToken |-> 0])

\* updateUser, updateAvatar: of the profile's fields the address is modelled.
UpdateUser(p, i, e) ==
    /\ i \in Enrolled
    /\ Change(p, i, [email |-> e])

-------------------------------------------------------------------------------
(* Administration                                                          *)

\* deleteUser: by the account's owner or an administrator, deleted already or not.
DeleteUser(p, i) == i \in Enrolled /\ Change(p, i, [deleted |-> TRUE])

BanUser(p, i) == i \in Enrolled /\ ~accounts[i].isBanned /\ Change(p, i, [isBanned |-> TRUE])

UnbanUser(p, i) == i \in Enrolled /\ accounts[i].isBanned /\ Change(p, i, [isBanned |-> FALSE])

FlagUser(p, i) == i \in Enrolled /\ ~accounts[i].isFlagged /\ Change(p, i, [isFlagged |-> TRUE])

UnflagUser(p, i) == i \in Enrolled /\ accounts[i].isFlagged /\ Change(p, i, [isFlagged |-> FALSE])

\* TeamUpdateRequestDto: a role, a status, or both.
TeamUpdates ==
    [role : {"USER", "STAFF"}] \cup [deleted : BOOLEAN]
        \cup [role : {"USER", "STAFF"}, deleted : BOOLEAN]

UpdateTeamMember(p, i, dto) == i \in Enrolled /\ Change(p, i, dto)

RemoveTeamMember(p, i) == i \in Enrolled /\ Change(p, i, [deleted |-> TRUE])

\* resendInvite: a new token and a new temporary password.
ResendInvite(p, i) ==
    /\ i \in Enrolled
    /\ Change(p, i, [invitationToken |-> Fresh, password |-> Fresh])

\* acceptInvitation: the account is found by the token; a new name must be free.
AcceptInvitation(p, i, n) ==
    /\ Live(i)
    /\ accounts[i].invitationToken # 0
    /\ n # accounts[i].userName => ~NameTaken(n)
    /\ Change(p, i, [password |-> Fresh, isVerified |-> TRUE, invitationToken |-> 0,
                     deleted |-> FALSE, userName |-> n])

-------------------------------------------------------------------------------

\* Faulty variant: the row goes back as it was read, with the new fields in it.
RowBack(c) == [f \in DOMAIN c.user |-> IF f \in DOMAIN c.data THEN c.data[f] ELSE c.user[f]]

\* user.update: the fields of data, on the row as it is now.
Updated(c) ==
    [f \in DOMAIN accounts[c.id] |-> IF f \in DOMAIN c.data THEN c.data[f] ELSE accounts[c.id][f]]

\* The write every call above ends with; a violated index is an error of the call.
AccountWrite(p) ==
    /\ At(p, "account.write")
    /\ LET c == calls[p]
           row == Updated(c)
           done == IndexAllows(row, c.id)
           redeems == "passwordResetOtp" \in DOMAIN c.data /\ c.data.passwordResetOtp = 0
       IN  /\ accounts' = IF done THEN [accounts EXCEPT ![c.id] = row] ELSE accounts
           /\ spent' = IF done /\ redeems THEN spent \cup {c.user.passwordResetOtp} ELSE spent
           /\ IF done /\ c.then = "email.send"
              THEN Goto(p, [at |-> "email.send", id |-> c.id, fresh |-> c.fresh])
              ELSE Return(p)
    /\ UNCHANGED wallets

\* auth.public.controller.ts: passwords and the second factor.
SecretRequest(p) ==
    \E i \in Account :
        \/ ForgotPassword(p, i) \/ ResetPassword(p, i) \/ ChangePassword(p, i)
        \/ SetupTwoFactor(p, i) \/ VerifyTwoFactor(p, i) \/ DisableTwoFactor(p, i)

\* auth.public.controller.ts, user.public.controller.ts: new accounts and addresses.
AddressRequest(p) ==
    \/ \E e \in Email, n \in UserName : Signup(p, e, n)
    \/ \E i \in Account :
          \/ \E e \in Email : ChangeEmail(p, i, e) \/ UpdateUser(p, i, e)
          \/ SendVerificationEmail(p, i) \/ VerifyEmail(p, i)

\* user.admin.controller.ts, and deleting one's own account.
UserAdminRequest(p) ==
    \/ \E e \in Email, n \in UserName, v \in BOOLEAN : CreateByAdmin(p, e, n, v)
    \/ \E i \in Account :
          \/ BanUser(p, i) \/ UnbanUser(p, i) \/ FlagUser(p, i) \/ UnflagUser(p, i)
          \/ DeleteUser(p, i)

\* user.team.controller.ts, and accept-invitation of auth.public.controller.ts.
TeamRequest(p) ==
    \/ \E e \in Email, n \in UserName : InviteTeamMember(p, e, n)
    \/ \E i \in Account :
          \/ \E dto \in TeamUpdates : UpdateTeamMember(p, i, dto)
          \/ RemoveTeamMember(p, i) \/ ResendInvite(p, i)
          \/ \E n \in UserName : AcceptInvitation(p, i, n)

AccountStep(p) == AccountInsert(p) \/ AccountWallet(p) \/ AccountWrite(p) \/ EmailSend(p)

\* An await throws or the process dies.
AccountAbort(p) == Interrupt(p) /\ UNCHANGED accountVars

AccountNext ==
    \E p \in Proc :
        \/ SecretRequest(p) \/ AddressRequest(p) \/ UserAdminRequest(p) \/ TeamRequest(p)
        \/ AccountStep(p) \/ AccountAbort(p)

AccountSpec == CallsInit /\ AccountInit /\ [][AccountNext]_<<callVars, accountVars>>

AccountTypeOK ==
    /\ accounts \in [Account -> AccountRow \cup {NoAccount}]
    /\ wallets \subseteq Enrolled
    /\ spent \subseteq Secret
    /\ \A i, j \in Enrolled :
          i # j => accounts[i].email # accounts[j].email /\ accounts[i].userName # accounts[j].userName

\* A code a password has been set with is in no row again, although calls that were under way
\* meanwhile had read the row with the code in it and write to the row afterwards.
SpentCodesStaySpent == \A i \in Enrolled : accounts[i].passwordResetOtp \notin spent

\* A ban is lifted by unbanUser alone: no call that had read the account before the ban, the
\* owner's own calls among them, takes it back by what it writes.
BanIsKept ==
    [][\A i \in Enrolled :
          (accounts[i].isBanned /\ ~accounts'[i].isBanned) =>
              \E p \in Proc :
                  /\ At(p, "account.write") /\ calls[p].id = i
                  /\ "isBanned" \in DOMAIN calls[p].data]_accountVars

===============================================================================
