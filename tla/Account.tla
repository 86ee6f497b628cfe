-------------------------------- MODULE Account -------------------------------
(***************************************************************************)
(* Who may do what: login by a code mailed to an address (AuthService,       *)
(* RedisService), the profile and its picture (UsersService), the staff      *)
(* (StaffService) and the gate every staff request passes (JwtStrategy,      *)
(* RolesGuard).  A request runs in steps, one per await that others can      *)
(* overtake; call[c] is what it has read so far.  A person is the address    *)
(* whose mail they read, and may type any address, with any code that was    *)
(* mailed to their own.  Codes are numbered: a six digit code that happens   *)
(* to repeat, or is guessed, is not modelled.                                *)
(***************************************************************************)
EXTENDS Naturals

CONSTANTS
    Emails, NoEmail,  \* lower-cased addresses, and who reads their mail
    Users,            \* ids of user rows
    Staff,            \* ids of staff rows
    Logins,           \* logins of staff
    Files, NoFile,    \* pictures
    Calls,            \* requests in progress
    MaxCodes,         \* bound: codes sent
    MaxRequests       \* bound: requests

ASSUME AccountConstants ==
    NoEmail \notin Emails /\ NoFile \notin Files /\ MaxCodes \in Nat
    /\ MaxRequests \in Nat

VARIABLES
    email,      \* user rows: the address, NoEmail where there is no row yet
    verified,   \* user rows with is_verified
    password,   \* <<p, u>>: p has set the password of user u
    otp,        \* Redis: the code stored for a purpose and an address, 0 for none
    codes,      \* codes made so far
    tokens,     \* <<p, u>>: p holds an access token for user u
    resets,     \* <<p, u>>: p holds a reset token for user u
    image, disk,\* the picture a row names, the files there are
    staff,      \* staff rows
    badges,     \* members of staff that hold an access token
    call,       \* requests in progress
    left,       \* requests to come
    mailbox,    \* the mail: <<f, p, n>> when code n for purpose f was delivered to p
    spent,      \* history: codes whose use has been completed
    crossed,    \* history: users with two changes of the profile at once, or one cut off
    revoked     \* history: staff put out of service and not reinstated

mail == <<otp, codes, mailbox, spent>>
rows == <<email, verified, password, tokens, resets>>
pictures == <<image, disk, crossed>>
people == <<staff, badges, revoked>>
accountVars == <<mail, rows, pictures, people, call, left>>

Purposes == {"login", "forgot"}
Roles == {"ADMIN", "AGENT"}
Statuses == {"ACTIVE", "INACTIVE"}
NoRow == [status |-> "none", login |-> "none", role |-> "none"]
Row == [status : Statuses, login : Logins, role : Roles]
Idle == [op |-> "idle"]

CallOK(r) ==
    CASE r.op = "idle"     -> TRUE
      [] r.op \in {"signUp", "send", "post", "find", "verify", "spend"} ->
            /\ r.for \in Purposes /\ r.email \in Emails
            /\ r.op \notin {"signUp", "send"} => r.code \in 1..MaxCodes
            /\ r.op \in {"find", "verify", "spend"} => r.by \in Emails
            /\ r.op \in {"verify", "spend"} => r.user \in Users
      [] r.op \in {"unlink", "write", "clear", "unlinkLast"} ->
            r.user \in Users /\ r.file \in Files \cup {NoFile} /\ r.old \in Files \cup {NoFile}
      [] r.op = "admitted" -> r.by \in Staff
      [] r.op = "insert"   -> r.row \in Row
      [] r.op = "update"   -> r.id \in Staff /\ r.read \in Row /\ r.asked \subseteq Row
      [] r.op = "delete"   -> r.id \in Staff
      [] OTHER -> FALSE

AccountTypeOK ==
    /\ email \in [Users -> Emails \cup {NoEmail}]
    /\ otp \in [Purposes \X Emails -> 0..MaxCodes] /\ codes \in 0..MaxCodes
    /\ verified \subseteq Users /\ tokens \subseteq Emails \X verified
    /\ resets \subseteq Emails \X Users /\ password \subseteq resets
    /\ mailbox \subseteq Purposes \X Emails \X (1..codes)
    /\ image \in [Users -> Files \cup {NoFile}] /\ disk \subseteq Files
    /\ staff \in [Staff -> Row \cup {NoRow}] /\ badges \subseteq Staff /\ revoked \subseteq Staff
    /\ spent \subseteq 1..codes /\ crossed \subseteq Users
    /\ left \in 0..MaxRequests /\ \A c \in Calls : CallOK(call[c])

AccountInit ==
    /\ email = [u \in Users |-> NoEmail] /\ verified = {} /\ password = {}
    /\ otp = [k \in Purposes \X Emails |-> 0] /\ codes = 0 /\ tokens = {} /\ resets = {}
    /\ image = [u \in Users |-> NoFile] /\ disk = {}
    /\ staff \in [Staff -> {NoRow} \cup {[status |-> "ACTIVE", login |-> l, role |-> "ADMIN"]
                                             : l \in Logins}]
    /\ \E s \in Staff : staff[s] # NoRow
    /\ badges = {} /\ mailbox = {} /\ spent = {} /\ crossed = {} /\ revoked = {}
    /\ call = [c \in Calls |-> Idle] /\ left = MaxRequests

Begin(c, r) ==
    /\ call[c] = Idle /\ call' = [call EXCEPT ![c] = r]
    /\ left > 0 /\ left' = left - 1
Goon(c, op, r) == call[c].op = op /\ call' = [call EXCEPT ![c] = r] /\ UNCHANGED left
End(c, op) == Goon(c, op, Idle)

\* Rows of an address: nothing keeps it unique, and findFirst takes any of them
RowsOf(e) == {u \in Users : email[u] = e}

-----------------------------------------------------------------------------
(* Codes                                                                    *)

\* auth: the row is looked for, and made when it is not there
Auth(c, e) ==
    /\ Begin(c, [op |-> IF RowsOf(e) = {} THEN "signUp" ELSE "send", for |-> "login", email |-> e])
    /\ UNCHANGED <<mail, rows, pictures, people>>

SignUp(c) ==
    /\ Goon(c, "signUp", [call[c] EXCEPT !.op = "send"])
    /\ \E u \in RowsOf(NoEmail) : email' = [email EXCEPT ![u] = call[c].email]
    /\ UNCHANGED <<verified, password, tokens, resets, mail, pictures, people>>

\* forgotPasswordPrepare does not lower-case what was typed: an address typed
\* otherwise finds nobody, as if it had no row
ForgotPrepare(c, e) ==
    /\ RowsOf(e) # {}
    /\ Begin(c, [op |-> "send", for |-> "forgot", email |-> e])
    /\ UNCHANGED <<mail, rows, pictures, people>>

\* A new code replaces the stored one
StoreCode(c) ==
    /\ codes < MaxCodes /\ codes' = codes + 1
    /\ Goon(c, "send", [op |-> "post", for |-> call[c].for, email |-> call[c].email,
                        code |-> codes + 1])
    /\ otp' = [otp EXCEPT ![<<call[c].for, call[c].email>>] = codes + 1]
    /\ UNCHANGED <<mailbox, spent, rows, pictures, people>>

\* Then it is mailed; when that fails the code stays stored
MailCode(c) ==
    /\ End(c, "post")
    /\ \E sent \in SUBSET {<<call[c].for, call[c].email, call[c].code>>} :
          mailbox' = mailbox \cup sent
    /\ UNCHANGED <<otp, codes, spent, rows, pictures, people>>

\* 120 seconds
CodeExpires(k) ==
    /\ otp[k] # 0
    /\ otp' = [otp EXCEPT ![k] = 0]
    /\ UNCHANGED <<codes, mailbox, spent, rows, pictures, people, call, left>>

\* p types a code that was mailed to p, for whichever purpose, with an address
Types(c, p, f, e, n) ==
    /\ \E g \in Purposes : <<g, p, n>> \in mailbox
    /\ Begin(c, [op |-> "find", for |-> f, email |-> e, code |-> n, by |-> p])
    /\ UNCHANGED <<mail, rows, pictures, people>>

\* Mutant: any code will do as long as one is stored
ReadAnyCode(c, p, f, e, n) == otp[<<f, e>>] # 0 /\ Types(c, p, f, e, n)

\* verifyOtp, forgotPasswordConfirmOtp: the code stored for the address typed
\* is read and compared
ReadCode(c, p, f, e, n) == otp[<<f, e>>] = n /\ Types(c, p, f, e, n)

\* Only then is the row of the address looked for
FindUser(c) ==
    /\ call[c].op = "find"
    /\ \E u \in RowsOf(call[c].email) :
          Goon(c, "find", [op |-> IF call[c].for = "login" THEN "verify" ELSE "spend",
                           for |-> call[c].for, email |-> call[c].email,
                           code |-> call[c].code, by |-> call[c].by, user |-> u])
    /\ UNCHANGED <<mail, rows, pictures, people>>

SetVerified(c) ==
    /\ Goon(c, "verify", [call[c] EXCEPT !.op = "spend"])
    /\ verified' = verified \cup {call[c].user}
    /\ UNCHANGED <<email, password, tokens, resets, mail, pictures, people>>

\* The answer goes to whoever typed the code
Grant(c) ==
    /\ spent' = spent \cup {call[c].code}
    /\ LET grant == {<<call[c].by, call[c].user>>}
       IN IF call[c].for = "login" THEN tokens' = tokens \cup grant /\ UNCHANGED resets
                                   ELSE resets' = resets \cup grant /\ UNCHANGED tokens
    /\ UNCHANGED <<codes, mailbox, email, verified, password, pictures, people>>

\* Mutant: the token is handed out and the code left to expire
SpendNothing(c) == End(c, "spend") /\ Grant(c) /\ UNCHANGED otp

\* deleteOtp deletes what is stored by now, a newer code too; then the token
SpendCode(c) ==
    /\ End(c, "spend") /\ Grant(c)
    /\ otp' = [otp EXCEPT ![<<call[c].for, call[c].email>>] = 0]

\* changeForgottenpassword; nothing spends the reset token.  changePassword asks
\* for the present password, known to whoever has set it: nothing changes here
SetPassword(p, u) ==
    /\ <<p, u>> \in resets
    /\ password' = password \cup {<<p, u>>}
    /\ UNCHANGED <<email, verified, tokens, resets, mail, pictures, people, call, left>>

\* changeStatus: staff may verify a user without a code
ChangeStatus(u) ==
    /\ email[u] # NoEmail
    /\ \E s \in badges : staff[s].status = "ACTIVE" /\ staff[s].role = "ADMIN"
    /\ verified' = verified \cup {u}
    /\ UNCHANGED <<email, password, tokens, resets, mail, pictures, people, call, left>>

-----------------------------------------------------------------------------
(* The profile's picture                                                    *)

AtProfile(c) == call[c].op \in {"unlink", "write", "clear", "unlinkLast"}
Crossing(u) == {v \in {u} : \E c \in Calls : AtProfile(c) /\ call[c].user = u}
Named(f) == \/ \E u \in Users : image[u] = f
            \/ \E c \in Calls : AtProfile(c) /\ f \in {call[c].old, call[c].file}

Session(u) == \E p \in Emails : <<p, u>> \in tokens

\* updateProfile: the upload is on disk before the row is read
UpdateProfile(c, u, f) ==
    /\ Session(u) /\ (f = NoFile \/ (~Named(f) /\ f \notin disk))
    /\ Begin(c, [op |-> IF f # NoFile /\ image[u] # NoFile THEN "unlink" ELSE "write",
                 user |-> u, file |-> f, old |-> image[u]])
    /\ disk' = disk \cup ({f} \ {NoFile})
    /\ crossed' = crossed \cup Crossing(u)
    /\ UNCHANGED <<image, mail, rows, people>>

\* The old picture is deleted before the row stops naming it
Unlink(c) ==
    /\ Goon(c, "unlink", [call[c] EXCEPT !.op = "write"])
    /\ disk' = disk \ {call[c].old}
    /\ UNCHANGED <<image, crossed, mail, rows, people>>

\* Every column is written, what was not asked for as it was read
WriteProfile(c) ==
    /\ End(c, "write")
    /\ image' = [image EXCEPT ![call[c].user] = IF call[c].file = NoFile THEN call[c].old
                                                                        ELSE call[c].file]
    /\ UNCHANGED <<disk, crossed, mail, rows, people>>

\* removeProfile: here the row goes first
RemoveProfile(c, u) ==
    /\ Session(u)
    /\ Begin(c, [op |-> "clear", user |-> u, file |-> NoFile, old |-> image[u]])
    /\ crossed' = crossed \cup Crossing(u)
    /\ UNCHANGED <<image, disk, mail, rows, people>>

\* Mutant: the picture goes and the row keeps its name
ClearNothing(c) ==
    /\ Goon(c, "clear", [call[c] EXCEPT !.op = "unlinkLast"])
    /\ UNCHANGED <<pictures, mail, rows, people>>

ClearImage(c) ==
    /\ Goon(c, "clear", [call[c] EXCEPT !.op = "unlinkLast"])
    /\ image' = [image EXCEPT ![call[c].user] = NoFile]
    /\ UNCHANGED <<disk, crossed, mail, rows, people>>

UnlinkLast(c) ==
    /\ End(c, "unlinkLast")
    /\ disk' = disk \ {call[c].old}
    /\ UNCHANGED <<image, crossed, mail, rows, people>>

-----------------------------------------------------------------------------
(* Staff                                                                    *)

\* login: any row of the login that findFirst returns
StaffLogin(s) ==
    /\ staff[s].status = "ACTIVE"
    /\ badges' = badges \cup {s}
    /\ UNCHANGED <<staff, revoked, mail, rows, pictures, call, left>>

\* Mutant: the token is believed
AdmitBadge(c, s) ==
    /\ s \in badges
    /\ Begin(c, [op |-> "admitted", by |-> s])
    /\ UNCHANGED <<mail, rows, pictures, people>>

\* validate reads the row at every request, the guard asks for its role
Admit(c, s) ==
    /\ s \in badges /\ staff[s].status = "ACTIVE" /\ staff[s].role = "ADMIN"
    /\ Begin(c, [op |-> "admitted", by |-> s])
    /\ UNCHANGED <<mail, rows, pictures, people>>

\* create looks for the login first; no constraint keeps it unique
CreateStaff(c, r) ==
    /\ \A s \in Staff : staff[s].login # r.login
    /\ Goon(c, "admitted", [op |-> "insert", row |-> r])
    /\ UNCHANGED <<mail, rows, pictures, people>>

InsertStaff(c) ==
    /\ End(c, "insert")
    /\ \E s \in Staff : staff[s] = NoRow /\ s \notin revoked /\ staff' = [staff EXCEPT ![s] = call[c].row]
    /\ UNCHANGED <<badges, revoked, mail, rows, pictures>>

\* update reads the row and hashes a password before it writes; asked is the
\* row as it would be, empty when neither status nor role is given
UpdateStaff(c, s, asked) ==
    /\ staff[s] # NoRow
    /\ Goon(c, "admitted", [op |-> "update", id |-> s, read |-> staff[s], asked |-> asked])
    /\ UNCHANGED <<mail, rows, pictures, people>>

\* Every column is written, what was not asked for as it was read: a block that
\* came in between is undone.  A row that was removed meanwhile makes it fail
WriteStaff(c) ==
    /\ End(c, "update")
    /\ LET s == call[c].id
           row == IF call[c].asked = {} THEN call[c].read ELSE CHOOSE r \in call[c].asked : TRUE
       IN IF staff[s] = NoRow THEN UNCHANGED <<staff, revoked>>
          ELSE /\ staff' = [staff EXCEPT ![s] = row]
               /\ revoked' = IF row.status = "ACTIVE" THEN revoked \ {s} ELSE revoked \cup {s}
    /\ UNCHANGED <<badges, mail, rows, pictures>>

RemoveStaff(c, s) ==
    /\ staff[s] # NoRow
    /\ Goon(c, "admitted", [op |-> "delete", id |-> s])
    /\ UNCHANGED <<mail, rows, pictures, people>>

DeleteStaff(c) ==
    /\ End(c, "delete")
    /\ staff' = [staff EXCEPT ![call[c].id] = NoRow]
    /\ revoked' = revoked \cup {call[c].id}
    /\ UNCHANGED <<badges, mail, rows, pictures>>

\* The process dies with its requests
Crash ==
    /\ \E c \in Calls : call[c] # Idle
    /\ call' = [c \in Calls |-> Idle] /\ UNCHANGED left
    /\ crossed' = crossed \cup {u \in Users : Crossing(u) # {}}
    /\ UNCHANGED <<image, disk, mail, rows, people>>

-----------------------------------------------------------------------------
CodeStep(c) ==
    \/ \E e \in Emails : Auth(c, e) \/ ForgotPrepare(c, e)
    \/ \E p, e \in Emails, f \in Purposes, n \in 1..codes : ReadCode(c, p, f, e, n)
    \/ SignUp(c) \/ StoreCode(c) \/ MailCode(c)
    \/ FindUser(c) \/ SetVerified(c) \/ SpendCode(c)

ProfileStep(c) ==
    \/ \E u \in Users : RemoveProfile(c, u) \/ \E f \in Files \cup {NoFile} : UpdateProfile(c, u, f)
    \/ Unlink(c) \/ WriteProfile(c) \/ ClearImage(c) \/ UnlinkLast(c)

StaffStep(c) ==
    \/ \E r \in Row : CreateStaff(c, r)
    \/ \E s \in Staff : \/ Admit(c, s) \/ RemoveStaff(c, s)
                        \/ UpdateStaff(c, s, {})
                        \/ \E r \in Row : UpdateStaff(c, s, {r})
    \/ InsertStaff(c) \/ WriteStaff(c) \/ DeleteStaff(c)

AccountNext ==
    \/ \E c \in Calls : CodeStep(c) \/ ProfileStep(c) \/ StaffStep(c)
    \/ \E k \in Purposes \X Emails : CodeExpires(k)
    \/ \E u \in Users : ChangeStatus(u) \/ \E p \in Emails : SetPassword(p, u)
    \/ \E s \in Staff : StaffLogin(s)
    \/ Crash

AccountSpec == AccountInit /\ [][AccountNext]_accountVars

-----------------------------------------------------------------------------
(* Properties *)

\* A code works until a use of it is completed: whoever is still at it then had
\* read it before.  (auth.service.ts:159-188, :299-328)
CodeSpent == \A k \in Purposes \X Emails : otp[k] \notin spent

\* p reads the mail of the user's address, and got a code for this purpose there
Proven(f, p, u) == email[u] = p /\ \E n \in 1..codes : <<f, p, n>> \in mailbox

\* Nobody holds a token for a user, nor has set the user's password, but who
\* reads the mail of that user's address and received a code for the purpose
\* there, however sign-ups, codes and addresses cross between the reading of
\* the code and that of the row.  (auth.service.ts:142-150, :159-205, :299-367)
AddressProven ==
    /\ \A p \in Emails, u \in Users : <<p, u>> \in tokens => Proven("login", p, u)
    /\ \A p \in Emails, u \in Users : <<p, u>> \in resets \cup password => Proven("forgot", p, u)

\* The picture a profile names is there, unless two changes of the profile ran
\* at once or one was cut off.  (users.service.ts:174-202, :231-257)
PictureKept ==
    \A u \in Users \ crossed :
        image[u] # NoFile /\ (\A c \in Calls : AtProfile(c) => call[c].user # u)
            => image[u] \in disk

\* A member of staff put out of service is not admitted on an old token until an
\* update writes the row back, asked to or because it had read it before.
\* (jwt.strategy.ts:23-48)
RevokedStaysOut ==
    [][\A c \in Calls : call'[c].op = "admitted" /\ call[c] = Idle
            => call'[c].by \notin revoked]_accountVars
=============================================================================
