---------------------------- MODULE AccountProofs ----------------------------
(***************************************************************************)
(* Login codes, profile pictures and staff for any number of requests,      *)
(* users, addresses and pictures.  The invariant says what a request in      *)
(* progress may rely on of what it read before: the one address to which     *)
(* the code it is about to spend was mailed, the picture the row still names, the files that     *)
(* nobody else names.  Codes, pictures and staff do not meet but in the      *)
(* requests, so each part of the invariant is shown against the steps of     *)
(* its own kind, and CallsOfOthers says that the rest leave it alone.        *)
(***************************************************************************)
EXTENDS Account, TLAPS

-----------------------------------------------------------------------------
(* What a request in progress remembers                                     *)

MailRequest == [op : {"signUp", "send"}, for : Purposes, email : Emails]
PostRequest == [op : {"post"}, for : Purposes, email : Emails, code : 1..MaxCodes]
FindRequest == [op : {"find"}, for : Purposes, email : Emails, code : 1..MaxCodes, by : Emails]
SpendRequest ==
    [op : {"verify", "spend"}, for : Purposes, email : Emails, code : 1..MaxCodes, by : Emails,
     user : Users]
CodeRequest == PostRequest \cup FindRequest \cup SpendRequest
Picture == Files \cup {NoFile}
ProfileRequest ==
    [op : {"unlink", "write", "clear", "unlinkLast"}, user : Users, file : Picture, old : Picture]
AdmittedRequest == [op : {"admitted"}, by : Staff]
InsertRequest == [op : {"insert"}, row : Row]
UpdateRequest == [op : {"update"}, id : Staff, read : Row, asked : SUBSET Row]
DeleteRequest == [op : {"delete"}, id : Staff]
Request ==
    {Idle} \cup MailRequest \cup CodeRequest \cup ProfileRequest \cup AdmittedRequest
           \cup InsertRequest \cup UpdateRequest \cup DeleteRequest

CallShape == call \in [Calls -> Request]

-----------------------------------------------------------------------------
(* The inductive invariant                                                  *)

HoldsCode(c) == call[c].op \in {"post", "find", "verify", "spend"}
HasRead(c) == call[c].op \in {"find", "verify", "spend"}
HasFound(c) == call[c].op \in {"verify", "spend"}

\* Code n for purpose f and address e is stored, in the mail, or in hand
Place(f, e, n) ==
    \/ otp[<<f, e>>] = n
    \/ <<f, e, n>> \in mailbox
    \/ \E c \in Calls : HoldsCode(c) /\ call[c].for = f /\ call[c].email = e /\ call[c].code = n

\* Whatever becomes of a code, it stays one purpose's and one address's
OnePlace ==
    \A f, g \in Purposes, d, e \in Emails, n \in 1..MaxCodes :
        Place(f, d, n) => n \in 1..codes /\ (Place(g, e, n) => f = g /\ d = e)

\* Codes, and that a spent one is stored nowhere
CodeShape ==
    /\ otp \in [Purposes \X Emails -> 0..codes] /\ codes \in 0..MaxCodes
    /\ spent \subseteq 1..codes
    /\ mailbox \subseteq Purposes \X Emails \X (1..codes)
    /\ CodeSpent
    /\ OnePlace

\* Whoever has a code that was stored for an address reads that address's mail;
\* the row found for it keeps the address
ReaderOf(c) ==
    /\ HasRead(c) => /\ call[c].by = call[c].email
                     /\ <<call[c].for, call[c].by, call[c].code>> \in mailbox
    /\ HasFound(c) => email[call[c].user] = call[c].email
    /\ call[c].op = "verify" => call[c].for = "login"
    /\ call[c].op = "spend" /\ call[c].for = "login" => call[c].user \in verified
ProvenShape ==
    /\ AddressProven
    /\ tokens \subseteq Emails \X verified /\ resets \subseteq Emails \X Users
    /\ password \subseteq resets
    /\ \A c \in Calls : ReaderOf(c)

\* The pictures a user's row and requests name
NamedBy(u) ==
    ({image[u]} \cup {f \in Files : \E c \in Calls :
                          AtProfile(c) /\ call[c].user = u /\ f \in {call[c].old, call[c].file}})
        \ {NoFile}
Owned == \A u, v \in Users : u # v => NamedBy(u) \cap NamedBy(v) = {}

\* A request on the profile of a user not crossed is the only one, and knows
\* which pictures are there
Kept(f) == f = NoFile \/ f \in disk
Alone ==
    \A c, d \in Calls : AtProfile(c) /\ AtProfile(d) /\ call[c].user = call[d].user
        => c = d \/ call[c].user \in crossed
Knows(c) ==
    AtProfile(c) /\ call[c].user \notin crossed =>
        /\ call[c].op = "unlink" => call[c].file \in disk /\ call[c].file # call[c].old
        /\ call[c].op = "write" => Kept(IF call[c].file = NoFile THEN call[c].old
                                                               ELSE call[c].file)
        /\ call[c].op = "unlinkLast" => image[call[c].user] = NoFile
AtRest(u) == u \notin crossed /\ \A c \in Calls : AtProfile(c) => call[c].user # u
ProfileShape ==
    /\ image \in [Users -> Picture] /\ disk \subseteq Files
    /\ Alone
    /\ \A c \in Calls : Knows(c)
    /\ \A u \in Users : AtRest(u) => Kept(image[u])

\* Staff out of service has no active row
StaffShape ==
    /\ staff \in [Staff -> Row \cup {NoRow}] /\ badges \subseteq Staff /\ revoked \subseteq Staff
    /\ \A s \in revoked : staff[s].status # "ACTIVE"

\* Rows, tokens and budgets
RestTypes ==
    /\ email \in [Users -> Emails \cup {NoEmail}] /\ verified \subseteq Users
    /\ crossed \subseteq Users
    /\ left \in 0..MaxRequests

AccountInv ==
    /\ CallShape /\ CodeShape /\ ProvenShape /\ Owned /\ ProfileShape /\ StaffShape /\ RestTypes

-----------------------------------------------------------------------------
(* Requests                                                                 *)

\* A request of some kind has that kind's fields.
LEMMA KindOf ==
  ASSUME NEW r \in Request
  PROVE  /\ r.op = "idle" => r = Idle
         /\ r.op \in {"signUp", "send"} => r \in MailRequest
         /\ r.op = "post" => r \in PostRequest
         /\ r.op = "find" => r \in FindRequest
         /\ r.op \in {"verify", "spend"} => r \in SpendRequest
         /\ r.op \in {"unlink", "write", "clear", "unlinkLast"} => r \in ProfileRequest
         /\ r.op = "admitted" => r \in AdmittedRequest
         /\ r.op = "insert" => r \in InsertRequest
         /\ r.op = "update" => r \in UpdateRequest
         /\ r.op = "delete" => r \in DeleteRequest
BY DEF Request, CodeRequest, Idle, MailRequest, PostRequest, FindRequest, SpendRequest,
       ProfileRequest, AdmittedRequest, InsertRequest, UpdateRequest, DeleteRequest

\* The operation of a request tells its kind.
LEMMA OpOf ==
    /\ Idle.op = "idle"
    /\ \A r \in MailRequest : r.op \in {"signUp", "send"}
    /\ \A r \in PostRequest : r.op = "post"
    /\ \A r \in FindRequest : r.op = "find"
    /\ \A r \in SpendRequest : r.op \in {"verify", "spend"}
    /\ \A r \in ProfileRequest : r.op \in {"unlink", "write", "clear", "unlinkLast"}
    /\ \A r \in AdmittedRequest : r.op = "admitted"
    /\ \A r \in InsertRequest : r.op = "insert"
    /\ \A r \in UpdateRequest : r.op = "update"
    /\ \A r \in DeleteRequest : r.op = "delete"
BY DEF Idle, MailRequest, PostRequest, FindRequest, SpendRequest, ProfileRequest,
       AdmittedRequest, InsertRequest, UpdateRequest, DeleteRequest

StaffRequest == AdmittedRequest \cup InsertRequest \cup UpdateRequest \cup DeleteRequest

\* One request moves, from one of these states to another
Moves(c, S) ==
    /\ call[c] \in S \cup {Idle}
    /\ \E r \in S \cup {Idle} : call' = [call EXCEPT ![c] = r]

\* A step of a login, sign-up or forgotten password moves a request of that kind.
LEMMA CodeMoves ==
  ASSUME CallShape, codes \in 0..MaxCodes, NEW c \in Calls, CodeStep(c)
  PROVE  Moves(c, MailRequest \cup CodeRequest) /\ UNCHANGED <<pictures, people>>
<1> DEFINE Goal == Moves(c, MailRequest \cup CodeRequest) /\ UNCHANGED <<pictures, people>>
<1> USE OpOf DEF CallShape, Goon, End, Begin
<1>1. ASSUME NEW e \in Emails, Auth(c, e) \/ ForgotPrepare(c, e) PROVE Goal
  BY <1>1 DEF Auth, ForgotPrepare, Moves, MailRequest, Purposes
<1>2. ASSUME NEW p \in Emails, NEW e \in Emails, NEW f \in Purposes, NEW n \in 1..codes,
             ReadCode(c, p, f, e, n)
      PROVE  Goal
  <2>1. n \in 1..MaxCodes
    BY AccountConstants
  <2>2. [op |-> "find", for |-> f, email |-> e, code |-> n, by |-> p] \in FindRequest
    BY <2>1 DEF FindRequest
  <2> QED
    BY <1>2, <2>2 DEF ReadCode, Types, Moves, CodeRequest
<1>3. ASSUME SignUp(c) PROVE Goal
  <2>1. call[c] \in MailRequest
    BY <1>3, KindOf DEF SignUp
  <2>2. [call[c] EXCEPT !.op = "send"] \in MailRequest
    BY <2>1 DEF MailRequest
  <2> QED
    BY <1>3, <2>1, <2>2 DEF SignUp, Moves
<1>4. ASSUME StoreCode(c) PROVE Goal
  <2>1. call[c] \in MailRequest /\ codes + 1 \in 1..MaxCodes
    BY <1>4, KindOf, AccountConstants DEF StoreCode
  <2>2. [op |-> "post", for |-> call[c].for, email |-> call[c].email, code |-> codes + 1]
            \in PostRequest
    BY <2>1 DEF PostRequest, MailRequest
  <2> QED
    BY <1>4, <2>1, <2>2 DEF StoreCode, Moves, CodeRequest
<1>5. ASSUME MailCode(c) PROVE Goal
  <2>1. call[c] \in PostRequest
    BY <1>5, KindOf DEF MailCode
  <2> QED
    BY <1>5, <2>1 DEF MailCode, Moves, CodeRequest
<1>6. ASSUME FindUser(c) PROVE Goal
  <2>1. call[c] \in FindRequest
    BY <1>6, KindOf DEF FindUser
  <2>2. ASSUME NEW u \in RowsOf(call[c].email), NEW op \in {"verify", "spend"}
        PROVE  [op |-> op, for |-> call[c].for, email |-> call[c].email, code |-> call[c].code,
                by |-> call[c].by, user |-> u] \in SpendRequest
    BY <2>1 DEF FindRequest, SpendRequest, RowsOf
  <2> QED
    BY <1>6, <2>1, <2>2 DEF FindUser, Moves, CodeRequest
<1>7. ASSUME SetVerified(c) PROVE Goal
  <2>1. call[c] \in SpendRequest
    BY <1>7, KindOf DEF SetVerified
  <2>2. [call[c] EXCEPT !.op = "spend"] \in SpendRequest
    BY <2>1 DEF SpendRequest
  <2> QED
    BY <1>7, <2>1, <2>2 DEF SetVerified, Moves, CodeRequest
<1>8. ASSUME SpendCode(c) PROVE Goal
  <2>1. call[c] \in SpendRequest
    BY <1>8, KindOf DEF SpendCode
  <2> QED
    BY <1>8, <2>1 DEF SpendCode, Grant, Moves, CodeRequest
<1> QED
  BY <1>1, <1>2, <1>3, <1>4, <1>5, <1>6, <1>7, <1>8 DEF CodeStep

\* A step of a profile moves a request of that kind.
LEMMA ProfileMoves ==
  ASSUME CallShape, image \in [Users -> Picture], NEW c \in Calls, ProfileStep(c)
  PROVE  Moves(c, ProfileRequest) /\ UNCHANGED <<mail, rows, people>>
<1> USE OpOf DEF CallShape, Goon, End, Begin
<1>1. ASSUME NEW u \in Users, RemoveProfile(c, u)
      PROVE  Moves(c, ProfileRequest) /\ UNCHANGED <<mail, rows, people>>
  BY <1>1 DEF RemoveProfile, Moves, ProfileRequest, Picture
<1>2. ASSUME NEW u \in Users, NEW f \in Files \cup {NoFile}, UpdateProfile(c, u, f)
      PROVE  Moves(c, ProfileRequest) /\ UNCHANGED <<mail, rows, people>>
  BY <1>2 DEF UpdateProfile, Moves, ProfileRequest, Picture
<1>3. ASSUME Unlink(c) \/ WriteProfile(c) \/ ClearImage(c) \/ UnlinkLast(c)
      PROVE  Moves(c, ProfileRequest) /\ UNCHANGED <<mail, rows, people>>
  <2>1. call[c] \in ProfileRequest
    BY <1>3, KindOf DEF Unlink, WriteProfile, ClearImage, UnlinkLast
  <2>2. /\ [call[c] EXCEPT !.op = "write"] \in ProfileRequest
        /\ [call[c] EXCEPT !.op = "unlinkLast"] \in ProfileRequest
    BY <2>1 DEF ProfileRequest
  <2> QED
    BY <1>3, <2>1, <2>2 DEF Unlink, WriteProfile, ClearImage, UnlinkLast, Moves
<1> QED
  BY <1>1, <1>2, <1>3 DEF ProfileStep

\* A step of the staff pages moves a request of that kind.
LEMMA StaffMoves ==
  ASSUME CallShape, staff \in [Staff -> Row \cup {NoRow}], NEW c \in Calls, StaffStep(c)
  PROVE  Moves(c, StaffRequest) /\ UNCHANGED <<mail, rows, pictures>>
<1> USE OpOf DEF CallShape, Goon, End, Begin, StaffRequest
<1>1. ASSUME NEW r \in Row, CreateStaff(c, r)
      PROVE  Moves(c, StaffRequest) /\ UNCHANGED <<mail, rows, pictures>>
  BY <1>1, KindOf DEF CreateStaff, Moves, InsertRequest
<1>2. ASSUME NEW s \in Staff, Admit(c, s) \/ RemoveStaff(c, s)
      PROVE  Moves(c, StaffRequest) /\ UNCHANGED <<mail, rows, pictures>>
  BY <1>2, KindOf DEF Admit, RemoveStaff, Moves, AdmittedRequest, DeleteRequest
<1>3. ASSUME NEW s \in Staff, NEW asked \in SUBSET Row, UpdateStaff(c, s, asked)
      PROVE  Moves(c, StaffRequest) /\ UNCHANGED <<mail, rows, pictures>>
  <2>1. staff[s] \in Row
    BY <1>3 DEF UpdateStaff
  <2>2. [op |-> "update", id |-> s, read |-> staff[s], asked |-> asked] \in UpdateRequest
    BY <2>1 DEF UpdateRequest
  <2> QED
    BY <1>3, <2>2, KindOf DEF UpdateStaff, Moves
<1>4. ASSUME InsertStaff(c) \/ WriteStaff(c) \/ DeleteStaff(c)
      PROVE  Moves(c, StaffRequest) /\ UNCHANGED <<mail, rows, pictures>>
  BY <1>4, KindOf DEF InsertStaff, WriteStaff, DeleteStaff, Moves
<1>5. ASSUME NEW s \in Staff, UpdateStaff(c, s, {})
      PROVE  Moves(c, StaffRequest) /\ UNCHANGED <<mail, rows, pictures>>
  BY <1>3, <1>5
<1>6. ASSUME NEW s \in Staff, NEW r \in Row, UpdateStaff(c, s, {r})
      PROVE  Moves(c, StaffRequest) /\ UNCHANGED <<mail, rows, pictures>>
  BY <1>3, <1>6
<1> QED
  BY <1>1, <1>2, <1>4, <1>5, <1>6 DEF StaffStep

\* A request that moves stays a request, and the others stay what they were.
LEMMA CallsOfOthers ==
  ASSUME CallShape, NEW c \in Calls
  PROVE  /\ Moves(c, ProfileRequest \cup StaffRequest) =>
              \A d \in Calls : HoldsCode(d)' => HoldsCode(d) /\ call'[d] = call[d]
         /\ Moves(c, MailRequest \cup CodeRequest \cup StaffRequest) =>
              \A d \in Calls : /\ AtProfile(d)' <=> AtProfile(d)
                               /\ AtProfile(d) => call'[d] = call[d]
<1>1. ASSUME Moves(c, ProfileRequest \cup StaffRequest), NEW d \in Calls, HoldsCode(d)'
      PROVE  HoldsCode(d) /\ call'[d] = call[d]
  BY <1>1, OpOf DEF Moves, HoldsCode, CallShape, StaffRequest
<1>2. ASSUME Moves(c, MailRequest \cup CodeRequest \cup StaffRequest), NEW d \in Calls
      PROVE  (AtProfile(d)' <=> AtProfile(d)) /\ (AtProfile(d) => call'[d] = call[d])
  BY <1>2, OpOf DEF Moves, AtProfile, CallShape, StaffRequest, CodeRequest
<1> QED
  BY <1>1, <1>2

\* Requests in progress stay of their kinds.
LEMMA CallShapeNext == AccountInv /\ AccountNext => CallShape'
<1> SUFFICES ASSUME AccountInv, AccountNext PROVE CallShape'
  OBVIOUS
<1>0. /\ CallShape /\ codes \in 0..MaxCodes /\ image \in [Users -> Picture]
      /\ staff \in [Staff -> Row \cup {NoRow}]
  BY DEF AccountInv, CodeShape, ProfileShape, StaffShape
<1>1. ASSUME NEW c \in Calls, CodeStep(c) \/ ProfileStep(c) \/ StaffStep(c) PROVE CallShape'
  BY <1>0, <1>1, CodeMoves, ProfileMoves, StaffMoves DEF Moves, CallShape, Request, StaffRequest
<1>2. ASSUME NEW k \in Purposes \X Emails, CodeExpires(k) PROVE CallShape'
  BY <1>0, <1>2 DEF CodeExpires, CallShape
<1>3. ASSUME NEW u \in Users, ChangeStatus(u) \/ \E p \in Emails : SetPassword(p, u)
      PROVE  CallShape'
  BY <1>0, <1>3 DEF SetPassword, ChangeStatus, CallShape
<1>4. ASSUME NEW s \in Staff, StaffLogin(s) PROVE CallShape'
  BY <1>0, <1>4 DEF StaffLogin, CallShape
<1>5. ASSUME Crash PROVE CallShape'
  BY <1>5 DEF Crash, CallShape, Request
<1> QED
  BY <1>1, <1>2, <1>3, <1>4, <1>5 DEF AccountNext

-----------------------------------------------------------------------------
(* Codes                                                                    *)

\* Steps that move no code and no address
CodesQuiet ==
    /\ UNCHANGED <<mail, tokens, resets, password>> /\ verified \subseteq verified'
    /\ \A u \in Users : email[u] # NoEmail => email'[u] = email[u]
    /\ \A d \in Calls : HoldsCode(d)' => HoldsCode(d) /\ call'[d] = call[d]

\* All steps are quiet about codes but those of a code's own life.
LEMMA QuietOnCodes ==
  ASSUME AccountInv,
         \/ \E c \in Calls : ProfileStep(c) \/ StaffStep(c) \/ SignUp(c)
         \/ \E c \in Calls, e \in Emails : Auth(c, e) \/ ForgotPrepare(c, e)
         \/ \E u \in Users : ChangeStatus(u)
         \/ \E s \in Staff : StaffLogin(s)
         \/ Crash
  PROVE  CodesQuiet
<1>0. /\ CallShape /\ image \in [Users -> Picture] /\ staff \in [Staff -> Row \cup {NoRow}]
      /\ email \in [Users -> Emails \cup {NoEmail}]
  BY DEF AccountInv, ProfileShape, StaffShape, RestTypes
<1>1. ASSUME NEW c \in Calls, ProfileStep(c) \/ StaffStep(c) PROVE CodesQuiet
  <2>1. Moves(c, ProfileRequest \cup StaffRequest) /\ UNCHANGED <<mail, rows>>
    BY <1>0, <1>1, ProfileMoves, StaffMoves DEF Moves
  <2> QED
    BY <1>0, <2>1, CallsOfOthers DEF CodesQuiet, rows
<1>2. ASSUME NEW c \in Calls, SignUp(c) PROVE CodesQuiet
  <2>1. call[c] \in MailRequest
    BY <1>0, <1>2, KindOf DEF SignUp, Goon, CallShape
  <2>2. [call[c] EXCEPT !.op = "send"].op = "send"
    BY <2>1 DEF MailRequest
  <2>3. PICK u \in RowsOf(NoEmail) : email' = [email EXCEPT ![u] = call[c].email]
    BY <1>2 DEF SignUp
  <2>4. \A v \in Users : email[v] # NoEmail => email'[v] = email[v]
    BY <1>0, <2>3 DEF RowsOf
  <2> QED
    BY <1>0, <1>2, <2>2, <2>4 DEF SignUp, Goon, CallShape, CodesQuiet, HoldsCode
<1>3. ASSUME NEW c \in Calls, NEW e \in Emails, Auth(c, e) \/ ForgotPrepare(c, e) PROVE CodesQuiet
  BY <1>0, <1>3 DEF Auth, ForgotPrepare, Begin, CallShape, CodesQuiet, HoldsCode, rows
<1>4. ASSUME NEW u \in Users, ChangeStatus(u) PROVE CodesQuiet
  BY <1>4 DEF ChangeStatus, CodesQuiet, HoldsCode
<1>5. ASSUME NEW s \in Staff, StaffLogin(s) PROVE CodesQuiet
  BY <1>5 DEF StaffLogin, CodesQuiet, HoldsCode, rows
<1>6. ASSUME Crash PROVE CodesQuiet
  BY <1>6, OpOf DEF Crash, CodesQuiet, HoldsCode, rows
<1> QED
  BY <1>1, <1>2, <1>3, <1>4, <1>5, <1>6

\* What is stored, mailed or held after a step was somewhere for the same
\* purpose and address before it
PlacesKept ==
    /\ codes' = codes
    /\ \A k \in Purposes \X Emails : otp'[k] = otp[k] \/ otp'[k] = 0
    /\ \A f \in Purposes, e \in Emails, n \in 1..MaxCodes :
          <<f, e, n>> \in mailbox' => Place(f, e, n)
    /\ \A d \in Calls : HoldsCode(d)' =>
          Place(call'[d].for, call'[d].email, call'[d].code)

\* Then every code keeps its one purpose and address.
LEMMA PlacesStay ==
  ASSUME OnePlace, PlacesKept
  PROVE  OnePlace'
<1>1. ASSUME NEW f \in Purposes, NEW e \in Emails, NEW n \in 1..MaxCodes, Place(f, e, n)'
      PROVE  Place(f, e, n)
  <2>1. CASE otp'[<<f, e>>] = n
    BY <2>1 DEF PlacesKept, Place
  <2>2. CASE <<f, e, n>> \in mailbox'
    BY <2>2 DEF PlacesKept
  <2>3. ASSUME NEW c \in Calls, HoldsCode(c)', call'[c].for = f, call'[c].email = e,
               call'[c].code = n
        PROVE  Place(f, e, n)
    BY <2>3 DEF PlacesKept
  <2> QED
    BY <1>1, <2>1, <2>2, <2>3 DEF Place
<1> QED
  BY <1>1 DEF OnePlace, PlacesKept

\* A request that holds a code holds it at its place.
LEMMA HeldPlace ==
  ASSUME NEW c \in Calls, HoldsCode(c)
  PROVE  Place(call[c].for, call[c].email, call[c].code)
BY DEF Place

\* Codes stay at their places, and spent ones are stored nowhere.
LEMMA CodeShapeNext == AccountInv /\ AccountNext => CodeShape'
<1> SUFFICES ASSUME AccountInv, AccountNext PROVE CodeShape'
  OBVIOUS
<1>0. /\ CodeShape /\ CallShape /\ call \in [Calls -> Request] /\ MaxCodes \in Nat
      /\ otp \in [Purposes \X Emails -> 0..codes] /\ codes \in 0..MaxCodes
  BY AccountConstants DEF AccountInv, CodeShape, CallShape
<1>1. ASSUME UNCHANGED mail, \A d \in Calls : HoldsCode(d)' => HoldsCode(d) /\ call'[d] = call[d]
      PROVE  CodeShape'
  <2>1. PlacesKept
    <3>1. \A d \in Calls : HoldsCode(d)' => Place(call'[d].for, call'[d].email, call'[d].code)
      BY <1>1, HeldPlace
    <3> QED
      BY <1>1, <3>1 DEF PlacesKept, Place, mail
  <2> QED
    BY <1>0, <1>1, <2>1, PlacesStay DEF CodeShape, CodeSpent, mail
<1>2. ASSUME NEW c \in Calls, StoreCode(c) PROVE CodeShape'
  <2>0. PICK f, e : f = call[c].for /\ e = call[c].email
    OBVIOUS
  <2>1. f \in Purposes /\ e \in Emails
    BY <1>0, <1>2, <2>0, KindOf DEF StoreCode, Goon, MailRequest
  <2>2. /\ codes < MaxCodes /\ codes' = codes + 1 /\ UNCHANGED <<spent, mailbox>>
        /\ otp' = [otp EXCEPT ![<<f, e>>] = codes + 1]
        /\ call' = [call EXCEPT ![c] = [op |-> "post", for |-> f, email |-> e, code |-> codes + 1]]
    BY <1>2, <2>0 DEF StoreCode, Goon
  <2>3. otp' \in [Purposes \X Emails -> 0..codes'] /\ codes' \in 0..MaxCodes
    BY <1>0, <2>1, <2>2
  <2>4. /\ otp'[<<f, e>>] = codes + 1
        /\ \A k \in Purposes \X Emails : k # <<f, e>> => otp'[k] = otp[k]
    BY <1>0, <2>1, <2>2
  <2>5. /\ spent' \subseteq 1..codes' /\ mailbox' \subseteq Purposes \X Emails \X (1..codes')
        /\ CodeSpent'
    BY <1>0, <2>2, <2>4 DEF CodeShape, CodeSpent
  <2>6. ASSUME NEW g \in Purposes, NEW d \in Emails, NEW n \in 1..MaxCodes, Place(g, d, n)'
        PROVE  Place(g, d, n) \/ (g = f /\ d = e /\ n = codes + 1)
    <3>1. CASE otp'[<<g, d>>] = n
      BY <2>4, <3>1 DEF Place
    <3>2. CASE <<g, d, n>> \in mailbox'
      BY <2>2, <3>2 DEF Place
    <3>3. ASSUME NEW b \in Calls, HoldsCode(b)', call'[b].for = g, call'[b].email = d,
                 call'[b].code = n
          PROVE  Place(g, d, n) \/ (g = f /\ d = e /\ n = codes + 1)
      BY <1>0, <2>2, <3>3 DEF Place, HoldsCode
    <3> QED
      BY <2>6, <3>1, <3>2, <3>3 DEF Place
  <2>7. OnePlace'
    BY <1>0, <2>2, <2>6 DEF CodeShape, OnePlace
  <2> QED
    BY <2>3, <2>5, <2>7 DEF CodeShape
<1>3. ASSUME NEW c \in Calls, MailCode(c) PROVE CodeShape'
  <2>1. PICK m : m = <<call[c].for, call[c].email, call[c].code>>
    OBVIOUS
  <2>2. /\ call[c] \in PostRequest /\ HoldsCode(c)
        /\ call' = [call EXCEPT ![c] = Idle] /\ UNCHANGED <<otp, codes, spent>>
        /\ mailbox \subseteq mailbox' /\ mailbox' \subseteq mailbox \cup {m}
    BY <1>0, <1>3, <2>1, KindOf DEF MailCode, End, Goon, HoldsCode
  <2>3. Place(call[c].for, call[c].email, call[c].code)
    BY <2>2, HeldPlace
  <2>4. m \in Purposes \X Emails \X (1..codes)
    BY <1>0, <2>1, <2>2, <2>3 DEF CodeShape, OnePlace, PostRequest
  <2>5. PlacesKept
    <3>1. \A d \in Calls : HoldsCode(d)' => HoldsCode(d) /\ call'[d] = call[d]
      BY <1>0, <2>2, OpOf DEF HoldsCode
    <3>2. \A d \in Calls : HoldsCode(d)' => Place(call'[d].for, call'[d].email, call'[d].code)
      BY <3>1, HeldPlace
    <3>3. ASSUME NEW f \in Purposes, NEW e \in Emails, NEW n \in 1..MaxCodes,
                 <<f, e, n>> \in mailbox'
          PROVE  Place(f, e, n)
      <4>1. <<f, e, n>> \in mailbox \/ <<f, e, n>> = m
        BY <2>2, <3>3
      <4>2. CASE <<f, e, n>> = m
        BY <2>1, <2>3, <4>2
      <4> QED
        BY <4>1, <4>2 DEF Place
    <3> QED
      BY <2>2, <3>2, <3>3 DEF PlacesKept
  <2>6. OnePlace'
    BY <1>0, <2>5, PlacesStay DEF CodeShape
  <2> QED
    BY <1>0, <2>2, <2>4, <2>6 DEF CodeShape, CodeSpent
<1>4. ASSUME NEW c \in Calls, NEW p \in Emails, NEW e \in Emails, NEW f \in Purposes,
             NEW n \in 1..codes, ReadCode(c, p, f, e, n)
      PROVE  CodeShape'
  <2>1. /\ otp[<<f, e>>] = n /\ UNCHANGED <<otp, codes, mailbox, spent>>
        /\ call' = [call EXCEPT ![c] = [op |-> "find", for |-> f, email |-> e, code |-> n, by |-> p]]
    BY <1>4 DEF ReadCode, Types, Begin, mail
  <2>2. ASSUME NEW d \in Calls, HoldsCode(d)'
        PROVE  Place(call'[d].for, call'[d].email, call'[d].code)
    <3>1. CASE d = c
      <4>1. call'[d].for = f /\ call'[d].email = e /\ call'[d].code = n
        BY <1>0, <2>1, <3>1
      <4> QED
        BY <2>1, <4>1 DEF Place
    <3>2. CASE d # c
      <4>1. HoldsCode(d) /\ call'[d] = call[d]
        BY <1>0, <2>1, <2>2, <3>2 DEF HoldsCode
      <4> QED
        BY <4>1, HeldPlace
    <3> QED
      BY <3>1, <3>2
  <2>3. PlacesKept
    BY <2>1, <2>2 DEF PlacesKept, Place
  <2> QED
    BY <1>0, <2>1, <2>3, PlacesStay DEF CodeShape, CodeSpent
<1>5. ASSUME NEW c \in Calls, FindUser(c) \/ SetVerified(c) PROVE CodeShape'
  <2>1. /\ HoldsCode(c) /\ UNCHANGED <<otp, codes, mailbox, spent>>
        /\ \E r : /\ call' = [call EXCEPT ![c] = r]
                  /\ r.for = call[c].for /\ r.email = call[c].email /\ r.code = call[c].code
    <3>1. CASE FindUser(c)
      BY <3>1 DEF FindUser, Goon, HoldsCode, mail
    <3>2. CASE SetVerified(c)
      <4>1. call[c] \in SpendRequest
        BY <1>0, <3>2, KindOf DEF SetVerified, Goon
      <4>2. /\ [call[c] EXCEPT !.op = "spend"].for = call[c].for
            /\ [call[c] EXCEPT !.op = "spend"].email = call[c].email
            /\ [call[c] EXCEPT !.op = "spend"].code = call[c].code
        BY <4>1 DEF SpendRequest
      <4> QED
        BY <3>2, <4>2 DEF SetVerified, Goon, HoldsCode, mail
    <3> QED
      BY <1>5, <3>1, <3>2
  <2>2. ASSUME NEW d \in Calls, HoldsCode(d)'
        PROVE  Place(call'[d].for, call'[d].email, call'[d].code)
    <3>1. CASE d = c
      <4>1. /\ call'[d].for = call[c].for /\ call'[d].email = call[c].email
            /\ call'[d].code = call[c].code
        BY <1>0, <2>1, <3>1
      <4> QED
        BY <2>1, <4>1, HeldPlace
    <3>2. CASE d # c
      <4>1. HoldsCode(d) /\ call'[d] = call[d]
        BY <1>0, <2>1, <2>2, <3>2 DEF HoldsCode
      <4> QED
        BY <4>1, HeldPlace
    <3> QED
      BY <3>1, <3>2
  <2>3. PlacesKept
    BY <2>1, <2>2 DEF PlacesKept, Place
  <2> QED
    BY <1>0, <2>1, <2>3, PlacesStay DEF CodeShape, CodeSpent
<1>6. ASSUME NEW c \in Calls, SpendCode(c) PROVE CodeShape'
  <2>0. PICK f, e, n : f = call[c].for /\ e = call[c].email /\ n = call[c].code
    OBVIOUS
  <2>1. call[c] \in SpendRequest /\ HoldsCode(c)
    BY <1>0, <1>6, KindOf DEF SpendCode, End, Goon, HoldsCode
  <2>2. f \in Purposes /\ e \in Emails /\ n \in 1..MaxCodes
    BY <2>0, <2>1 DEF SpendRequest
  <2>3. /\ otp' = [otp EXCEPT ![<<f, e>>] = 0] /\ UNCHANGED <<codes, mailbox>>
        /\ spent' = spent \cup {n} /\ call' = [call EXCEPT ![c] = Idle]
    BY <1>6, <2>0 DEF SpendCode, Grant, End, Goon
  <2>4. Place(f, e, n)
    BY <2>0, <2>1, HeldPlace
  <2>5. /\ n \in 1..codes
        /\ \A g \in Purposes, d \in Emails : otp[<<g, d>>] = n => g = f /\ d = e
    <3>1. \A g \in Purposes, d \in Emails : otp[<<g, d>>] = n => Place(g, d, n)
      BY DEF Place
    <3> QED
      BY <1>0, <2>2, <2>4, <3>1 DEF CodeShape, OnePlace
  <2>6. /\ otp'[<<f, e>>] = 0 /\ otp' \in [Purposes \X Emails -> 0..codes]
        /\ \A k \in Purposes \X Emails : k # <<f, e>> => otp'[k] = otp[k]
    BY <1>0, <2>2, <2>3
  <2>7. CodeSpent'
    <3>1. ASSUME NEW g \in Purposes, NEW d \in Emails PROVE otp'[<<g, d>>] \notin spent'
      <4>1. CASE g = f /\ d = e
        BY <1>0, <2>3, <2>5, <2>6, <4>1 DEF CodeShape
      <4>2. CASE ~(g = f /\ d = e)
        <5>1. otp'[<<g, d>>] = otp[<<g, d>>] /\ otp[<<g, d>>] # n
          BY <2>5, <2>6, <4>2
        <5> QED
          BY <1>0, <2>3, <5>1 DEF CodeShape, CodeSpent
      <4> QED
        BY <4>1, <4>2
    <3> QED
      BY <3>1 DEF CodeSpent
  <2>8. PlacesKept
    <3>1. \A d \in Calls : HoldsCode(d)' => HoldsCode(d) /\ call'[d] = call[d]
      BY <1>0, <2>3, OpOf DEF HoldsCode
    <3>2. \A d \in Calls : HoldsCode(d)' => Place(call'[d].for, call'[d].email, call'[d].code)
      BY <3>1, HeldPlace
    <3> QED
      BY <2>3, <2>6, <3>2 DEF PlacesKept, Place
  <2> QED
    BY <1>0, <2>3, <2>5, <2>6, <2>7, <2>8, PlacesStay DEF CodeShape
<1>7. ASSUME NEW k \in Purposes \X Emails, CodeExpires(k) PROVE CodeShape'
  <2>1. otp' = [otp EXCEPT ![k] = 0] /\ UNCHANGED <<codes, mailbox, spent, call>>
    BY <1>7 DEF CodeExpires
  <2>2. /\ otp'[k] = 0
        /\ \A j \in Purposes \X Emails : j # k => otp'[j] = otp[j]
        /\ otp' \in [Purposes \X Emails -> 0..codes]
    BY <1>0, <2>1
  <2>3. \A d \in Calls : HoldsCode(d)' => Place(call'[d].for, call'[d].email, call'[d].code)
    BY <2>1, HeldPlace DEF HoldsCode
  <2>4. PlacesKept
    BY <2>1, <2>2, <2>3 DEF PlacesKept, Place
  <2>5. CodeSpent'
    BY <1>0, <2>1, <2>2 DEF CodeShape, CodeSpent
  <2> QED
    BY <1>0, <2>1, <2>2, <2>4, <2>5, PlacesStay DEF CodeShape
<1>8. ASSUME NEW p \in Emails, NEW u \in Users, SetPassword(p, u) PROVE CodeShape'
  BY <1>1, <1>8 DEF SetPassword, HoldsCode
<1>9. ASSUME CodesQuiet PROVE CodeShape'
  BY <1>1, <1>9 DEF CodesQuiet
<1> QED
  BY <1>2, <1>3, <1>4, <1>5, <1>6, <1>7, <1>8, <1>9, QuietOnCodes DEF AccountNext, CodeStep

\* Only who reads the mail of an address gets hold of its users.
LEMMA ProvenShapeNext == AccountInv /\ AccountNext => ProvenShape'
<1> SUFFICES ASSUME AccountInv, AccountNext PROVE ProvenShape'
  OBVIOUS
<1>0. /\ ProvenShape /\ CodeShape /\ CallShape /\ call \in [Calls -> Request]
      /\ NoEmail \notin Emails /\ codes \in 0..MaxCodes /\ MaxCodes \in Nat
      /\ email \in [Users -> Emails \cup {NoEmail}]
  BY AccountConstants DEF AccountInv, CallShape, CodeShape, RestTypes
<1> DEFINE RowsKept == \A u \in Users : email[u] # NoEmail => email'[u] = email[u]
\* What has been proven stays proven, as long as rows keep their address
<1>1. ASSUME RowsKept, mailbox \subseteq mailbox', codes' = codes \/ codes' = codes + 1,
             NEW f, NEW p \in Emails, NEW u \in Users, Proven(f, p, u)
      PROVE  Proven(f, p, u)'
  BY <1>0, <1>1 DEF Proven
<1>2. ASSUME RowsKept, mailbox \subseteq mailbox', verified \subseteq verified',
             NEW d \in Calls, call'[d] = call[d]
      PROVE  ReaderOf(d)'
  <2>1. ReaderOf(d)
    BY <1>0 DEF ProvenShape
  <2>2. call[d].op = "spend" \/ call[d].op = "verify" => call[d].user \in Users /\ call[d].email \in Emails
    BY <1>0, KindOf DEF SpendRequest
  <2> QED
    BY <1>0, <1>2, <2>1, <2>2 DEF ReaderOf, HasRead, HasFound
<1>3. ASSUME RowsKept, mailbox \subseteq mailbox', codes' = codes \/ codes' = codes + 1,
             verified \subseteq verified', UNCHANGED <<tokens, resets, password>>,
             \A d \in Calls : ReaderOf(d)'
      PROVE  ProvenShape'
  BY <1>0, <1>1, <1>3 DEF ProvenShape, AddressProven
<1>4. ASSUME NEW d \in Calls, ~HasRead(d)' PROVE ReaderOf(d)'
  BY <1>4 DEF ReaderOf, HasRead, HasFound
<1> HIDE DEF RowsKept
<1>5. ASSUME UNCHANGED email PROVE RowsKept
  BY <1>5 DEF RowsKept
<1>6. ASSUME CodesQuiet PROVE ProvenShape'
  <2>1. \A d \in Calls : ReaderOf(d)'
    BY <1>2, <1>4, <1>6 DEF CodesQuiet, RowsKept, HoldsCode, HasRead, mail
  <2> QED
    BY <1>3, <1>6, <2>1 DEF CodesQuiet, RowsKept, mail
<1>7. ASSUME NEW c \in Calls, StoreCode(c) \/ MailCode(c) PROVE ProvenShape'
  <2>1. /\ UNCHANGED rows /\ mailbox \subseteq mailbox' /\ (codes' = codes \/ codes' = codes + 1)
        /\ \E r : call' = [call EXCEPT ![c] = r] /\ r.op \in {"idle", "post"}
    BY <1>7, OpOf DEF StoreCode, MailCode, End, Goon
  <2>2. ASSUME NEW d \in Calls PROVE ReaderOf(d)'
    <3>1. CASE d = c
      BY <1>0, <1>4, <2>1, <3>1 DEF HasRead
    <3>2. CASE d # c
      BY <1>0, <1>2, <1>5, <2>1, <3>2 DEF rows
    <3> QED
      BY <3>1, <3>2
  <2> QED
    BY <1>3, <1>5, <2>1, <2>2 DEF rows
<1>8. ASSUME NEW c \in Calls, NEW p \in Emails, NEW e \in Emails, NEW f \in Purposes,
             NEW n \in 1..codes, ReadCode(c, p, f, e, n)
      PROVE  ProvenShape'
  <2>1. PICK g \in Purposes : <<g, p, n>> \in mailbox
    BY <1>8 DEF ReadCode, Types
  <2>2. /\ otp[<<f, e>>] = n /\ UNCHANGED <<mail, rows>>
        /\ call' = [call EXCEPT ![c] = [op |-> "find", for |-> f, email |-> e, code |-> n, by |-> p]]
    BY <1>8 DEF ReadCode, Types, Begin
  <2>3. g = f /\ p = e
    <3>1. Place(g, p, n) /\ Place(f, e, n) /\ n \in 1..MaxCodes
      BY <1>0, <2>1, <2>2 DEF Place
    <3> QED
      BY <1>0, <3>1 DEF CodeShape, OnePlace
  <2>4. ASSUME NEW d \in Calls PROVE ReaderOf(d)'
    <3>1. CASE d = c
      <4>1. call'[d] = [op |-> "find", for |-> f, email |-> e, code |-> n, by |-> p]
        BY <1>0, <2>2, <3>1
      <4> QED
        BY <2>1, <2>2, <2>3, <4>1 DEF ReaderOf, HasRead, HasFound, mail
    <3>2. CASE d # c
      BY <1>0, <1>2, <1>5, <2>2, <3>2 DEF rows, mail
    <3> QED
      BY <3>1, <3>2
  <2> QED
    BY <1>3, <1>5, <2>2, <2>4 DEF rows, mail
<1>9. ASSUME NEW c \in Calls, FindUser(c) PROVE ProvenShape'
  <2>1. /\ UNCHANGED <<mail, rows>> /\ call[c].op = "find"
        /\ \E u \in RowsOf(call[c].email) :
              call' = [call EXCEPT ![c] =
                  [op |-> IF call[c].for = "login" THEN "verify" ELSE "spend",
                   for |-> call[c].for, email |-> call[c].email,
                   code |-> call[c].code, by |-> call[c].by, user |-> u]]
    BY <1>9 DEF FindUser, Goon
  <2>2. PICK u \in Users : /\ email[u] = call[c].email
                           /\ call' = [call EXCEPT ![c] =
                                [op |-> IF call[c].for = "login" THEN "verify" ELSE "spend",
                                 for |-> call[c].for, email |-> call[c].email,
                                 code |-> call[c].code, by |-> call[c].by, user |-> u]]
    BY <2>1 DEF RowsOf
  <2>3. ReaderOf(c) /\ HasRead(c)
    BY <1>0, <2>1 DEF ProvenShape, HasRead
  <2>4. ASSUME NEW d \in Calls PROVE ReaderOf(d)'
    <3>1. CASE d = c
      <4>1. /\ call'[d].op = IF call[c].for = "login" THEN "verify" ELSE "spend"
            /\ call'[d].for = call[c].for /\ call'[d].email = call[c].email
            /\ call'[d].code = call[c].code /\ call'[d].by = call[c].by /\ call'[d].user = u
        BY <1>0, <2>2, <3>1
      <4> QED
        BY <2>1, <2>2, <2>3, <4>1 DEF ReaderOf, HasRead, HasFound, mail, rows
    <3>2. CASE d # c
      BY <1>0, <1>2, <1>5, <2>1, <2>2, <3>2 DEF rows, mail
    <3> QED
      BY <3>1, <3>2
  <2> QED
    BY <1>3, <1>5, <2>1, <2>4 DEF rows, mail
<1>10. ASSUME NEW c \in Calls, SetVerified(c) PROVE ProvenShape'
  <2>1. /\ UNCHANGED <<email, password, tokens, resets, mail>> /\ call[c].op = "verify"
        /\ verified' = verified \cup {call[c].user}
        /\ call' = [call EXCEPT ![c] = [call[c] EXCEPT !.op = "spend"]]
    BY <1>10 DEF SetVerified, Goon
  <2>2. call[c] \in SpendRequest
    BY <1>0, <2>1, KindOf
  <2>3. ReaderOf(c) /\ HasRead(c) /\ HasFound(c)
    BY <1>0, <2>1 DEF ProvenShape, HasRead, HasFound
  <2>4. ASSUME NEW d \in Calls PROVE ReaderOf(d)'
    <3>1. CASE d = c
      <4>1. /\ call'[d].op = "spend"
            /\ call'[d].for = call[c].for /\ call'[d].email = call[c].email
            /\ call'[d].code = call[c].code /\ call'[d].by = call[c].by
            /\ call'[d].user = call[c].user
        BY <1>0, <2>1, <2>2, <3>1 DEF SpendRequest
      <4> QED
        BY <2>1, <2>3, <4>1 DEF ReaderOf, HasRead, HasFound, mail
    <3>2. CASE d # c
      BY <1>0, <1>2, <1>5, <2>1, <3>2 DEF mail
    <3> QED
      BY <3>1, <3>2
  <2> QED
    BY <1>3, <1>5, <2>1, <2>4 DEF mail
<1>11. ASSUME NEW c \in Calls, SpendCode(c) PROVE ProvenShape'
  <2>0. PICK p, u, f : p = call[c].by /\ u = call[c].user /\ f = call[c].for
    OBVIOUS
  <2>1. /\ UNCHANGED <<codes, mailbox, email, verified, password>> /\ call[c].op = "spend"
        /\ call' = [call EXCEPT ![c] = Idle]
        /\ \/ f = "login" /\ tokens' = tokens \cup {<<p, u>>} /\ resets' = resets
           \/ f # "login" /\ resets' = resets \cup {<<p, u>>} /\ tokens' = tokens
    BY <1>11, <2>0 DEF SpendCode, Grant, End, Goon
  <2>2. p \in Emails /\ u \in Users /\ f \in Purposes /\ call[c].code \in 1..MaxCodes
    BY <1>0, <2>0, <2>1, KindOf DEF SpendRequest
  <2>3. ReaderOf(c) /\ HasRead(c) /\ HasFound(c)
    BY <1>0, <2>1 DEF ProvenShape, HasRead, HasFound
  <2>4. Proven(f, p, u)
    <3>1. email[u] = p /\ <<f, p, call[c].code>> \in mailbox
      BY <2>0, <2>3 DEF ReaderOf
    <3>2. call[c].code \in 1..codes
      BY <1>0, <3>1 DEF CodeShape
    <3> QED
      BY <3>1, <3>2 DEF Proven
  <2>5. f = "login" => u \in verified
    BY <2>0, <2>1, <2>3 DEF ReaderOf
  <2>6. ASSUME NEW d \in Calls PROVE ReaderOf(d)'
    <3>1. CASE d = c
      BY <1>0, <1>4, <2>1, <3>1, OpOf DEF HasRead
    <3>2. CASE d # c
      BY <1>0, <1>2, <1>5, <2>1, <3>2
    <3> QED
      BY <3>1, <3>2
  <2>7. \A q \in Emails, v \in Users : \A g \in Purposes : Proven(g, q, v) => Proven(g, q, v)'
    BY <2>1 DEF Proven
  <2>8. AddressProven'
    <3>1. ASSUME NEW q \in Emails, NEW v \in Users, <<q, v>> \in tokens'
          PROVE  Proven("login", q, v)'
      BY <1>0, <2>1, <2>2, <2>4, <2>7, <3>1 DEF ProvenShape, AddressProven, Purposes
    <3>2. ASSUME NEW q \in Emails, NEW v \in Users, <<q, v>> \in resets' \cup password'
          PROVE  Proven("forgot", q, v)'
      BY <1>0, <2>1, <2>2, <2>4, <2>7, <3>2 DEF ProvenShape, AddressProven, Purposes
    <3> QED
      BY <3>1, <3>2 DEF AddressProven
  <2> QED
    BY <1>0, <2>1, <2>2, <2>5, <2>6, <2>8 DEF ProvenShape
<1>12. ASSUME NEW k \in Purposes \X Emails, CodeExpires(k) PROVE ProvenShape'
  BY <1>2, <1>3, <1>5, <1>12 DEF CodeExpires, rows
<1>13. ASSUME NEW p \in Emails, NEW u \in Users, SetPassword(p, u) PROVE ProvenShape'
  <2>1. /\ <<p, u>> \in resets /\ password' = password \cup {<<p, u>>}
        /\ UNCHANGED <<email, verified, tokens, resets, mail, call>>
    BY <1>13 DEF SetPassword
  <2>2. \A d \in Calls : ReaderOf(d)'
    BY <1>2, <1>5, <2>1 DEF mail
  <2>3. \A q \in Emails, v \in Users : \A g \in Purposes : Proven(g, q, v) => Proven(g, q, v)'
    BY <2>1 DEF Proven, mail
  <2>4. AddressProven'
    BY <1>0, <2>1, <2>3 DEF ProvenShape, AddressProven, Purposes
  <2> QED
    BY <1>0, <2>1, <2>2, <2>4 DEF ProvenShape
<1> QED
  BY <1>6, <1>7, <1>8, <1>9, <1>10, <1>11, <1>12, <1>13, QuietOnCodes DEF AccountNext, CodeStep

-----------------------------------------------------------------------------
(* Pictures                                                                 *)

\* Steps that leave pictures and the requests about them alone
PicturesQuiet ==
    /\ UNCHANGED pictures
    /\ \A d \in Calls : /\ AtProfile(d)' <=> AtProfile(d)
                        /\ AtProfile(d) => call'[d] = call[d]

\* Logins, staff and time are quiet about pictures.
LEMMA QuietOnPictures ==
  ASSUME AccountInv,
         \/ \E c \in Calls : CodeStep(c) \/ StaffStep(c)
         \/ \E k \in Purposes \X Emails : CodeExpires(k)
         \/ \E u \in Users : ChangeStatus(u) \/ \E p \in Emails : SetPassword(p, u)
         \/ \E s \in Staff : StaffLogin(s)
  PROVE  PicturesQuiet
<1>0. /\ CallShape /\ codes \in 0..MaxCodes /\ staff \in [Staff -> Row \cup {NoRow}]
  BY DEF AccountInv, CodeShape, StaffShape
<1>1. ASSUME NEW c \in Calls, CodeStep(c) \/ StaffStep(c) PROVE PicturesQuiet
  <2>1. Moves(c, MailRequest \cup CodeRequest \cup StaffRequest) /\ UNCHANGED pictures
    BY <1>0, <1>1, CodeMoves, StaffMoves DEF Moves
  <2> QED
    BY <1>0, <2>1, CallsOfOthers DEF PicturesQuiet
<1>2. ASSUME UNCHANGED <<pictures, call>> PROVE PicturesQuiet
  BY <1>2 DEF PicturesQuiet, AtProfile
<1> QED
  BY <1>1, <1>2 DEF CodeExpires, SetPassword, ChangeStatus, StaffLogin

\* What it is to be named.
LEMMA Names ==
  ASSUME CallShape, image \in [Users -> Picture], NEW u \in Users, NEW f
  PROVE  f \in NamedBy(u) <=>
            /\ f # NoFile
            /\ \/ f = image[u]
               \/ \E c \in Calls : /\ AtProfile(c) /\ call[c].user = u
                                   /\ f \in {call[c].old, call[c].file}
<1>1. ASSUME NEW c \in Calls, AtProfile(c)
      PROVE  call[c].old \in Picture /\ call[c].file \in Picture
  <2>1. call[c] \in ProfileRequest
    BY <1>1, KindOf DEF CallShape, AtProfile
  <2> QED
    BY <2>1 DEF ProfileRequest
<1> QED
  BY <1>1 DEF NamedBy, Picture

\* A user's request that moves names what the user named before, but for a new
\* upload, and the others name what they did.
LEMMA NamesMoved ==
  ASSUME CallShape, CallShape', image \in [Users -> Picture], image' \in [Users -> Picture],
         NEW c \in Calls, NEW w \in Users, NEW new, NEW r \in Request,
         call' = [call EXCEPT ![c] = r],
         AtProfile(c)' => r.user = w /\ r.old \in NamedBy(w) \cup {NoFile}
                                     /\ r.file \in NamedBy(w) \cup new \cup {NoFile},
         \A v \in Users : \/ image'[v] = image[v]
                          \/ v = w /\ image'[v] \in NamedBy(w) \cup {NoFile},
         NEW u \in Users, NEW f \in NamedBy(u)'
  PROVE  f \in NamedBy(u) \/ (u = w /\ f \in new)
<1>1. f # NoFile /\ (f = image'[u] \/ \E d \in Calls : /\ AtProfile(d)' /\ call'[d].user = u
                                                      /\ f \in {call'[d].old, call'[d].file})
  <2>1. CallShape' /\ image' \in [Users -> Picture]
    OBVIOUS
  <2>2. \A d \in Calls : AtProfile(d)' => call'[d].old \in Picture /\ call'[d].file \in Picture
    <3>1. ASSUME NEW d \in Calls, AtProfile(d)' PROVE call'[d] \in ProfileRequest
      BY <3>1, KindOf DEF CallShape, AtProfile
    <3> QED
      BY <3>1 DEF ProfileRequest
  <2> QED
    BY <2>1, <2>2 DEF NamedBy, Picture
<1>2. CASE f = image'[u]
  BY <1>1, <1>2, Names
<1>3. ASSUME NEW d \in Calls, AtProfile(d)', call'[d].user = u, f \in {call'[d].old, call'[d].file}
      PROVE  f \in NamedBy(u) \/ (u = w /\ f \in new)
  <2>1. CASE d = c
    <3>1. call'[d] = r
      BY <2>1 DEF CallShape
    <3> QED
      BY <1>1, <1>3, <2>1, <3>1
  <2>2. CASE d # c
    <3>1. call'[d] = call[d] /\ AtProfile(d)
      BY <1>3, <2>2 DEF CallShape, AtProfile
    <3> QED
      BY <1>1, <1>3, <3>1, Names
  <2> QED
    BY <2>1, <2>2
<1> QED
  BY <1>1, <1>2, <1>3

\* One request moves, of user w: what the others know and keep stays true when
\* the only file to go is one of w's.
LEMMA OthersKeep ==
  ASSUME CallShape, ProfileShape, Owned,
         NEW c \in Calls, NEW w \in Users, NEW gone, NEW r \in Request,
         call' = [call EXCEPT ![c] = r],
         AtProfile(c) => call[c].user = w,
         AtProfile(c)' => r.user = w,
         \A v \in Users \ {w} : image'[v] = image[v],
         \A h \in disk : h \in disk' \/ h = gone,
         gone \in NamedBy(w) \cup {NoFile},
         crossed \subseteq crossed',
         \/ AtProfile(c) \/ w \in crossed'
         \/ \A d \in Calls : AtProfile(d) => call[d].user # w
  PROVE  /\ Alone'
         /\ \A d \in Calls \ {c} : Knows(d)'
         /\ \A u \in Users \ {w} : AtRest(u)' => Kept(image[u])'
<1>0. /\ call \in [Calls -> Request] /\ image \in [Users -> Picture] /\ NoFile \notin disk
      /\ call'[c] = r
      /\ \A d \in Calls \ {c} : call'[d] = call[d] /\ (AtProfile(d)' <=> AtProfile(d))
  BY AccountConstants DEF CallShape, ProfileShape, AtProfile
<1>1. \A d \in Calls : AtProfile(d) => call[d].user \in Users
  <2>1. ASSUME NEW d \in Calls, AtProfile(d) PROVE call[d] \in ProfileRequest
    BY <1>0, <2>1, KindOf DEF AtProfile
  <2> QED
    BY <2>1 DEF ProfileRequest
<1>2. Alone'
  <2>1. ASSUME NEW d \in Calls, AtProfile(d), AtProfile(c)', d # c, call[d].user = w
        PROVE  w \in crossed'
    BY <2>1 DEF ProfileShape, Alone
  <2>2. ASSUME NEW d \in Calls, NEW e \in Calls, AtProfile(d)', AtProfile(e)',
               call'[d].user = call'[e].user, d # e
        PROVE  call'[d].user \in crossed'
    <3>1. CASE d = c
      BY <1>0, <2>1, <2>2, <3>1
    <3>2. CASE e = c
      BY <1>0, <2>1, <2>2, <3>2
    <3>3. CASE d # c /\ e # c
      BY <1>0, <2>2, <3>3 DEF ProfileShape, Alone
    <3> QED
      BY <3>1, <3>2, <3>3
  <2> QED
    BY <2>2 DEF Alone
<1>3. ASSUME NEW d \in Calls \ {c}, AtProfile(d), call[d].user \notin crossed',
             call[d].user # w
      PROVE  /\ call[d].old # NoFile => call[d].old # gone
             /\ call[d].file # NoFile => call[d].file # gone
  <2>1. /\ call[d].old # NoFile => call[d].old \in NamedBy(call[d].user)
        /\ call[d].file # NoFile => call[d].file \in NamedBy(call[d].user)
    BY <1>0, <1>1, <1>3, Names
  <2> QED
    BY <1>1, <1>3, <2>1 DEF Owned
<1>4. ASSUME NEW d \in Calls \ {c} PROVE Knows(d)'
  <2> SUFFICES ASSUME AtProfile(d), call[d].user \notin crossed' PROVE Knows(d)'
    BY <1>0 DEF Knows
  <2>1. CASE call[d].user # w
    <3>1. /\ image'[call[d].user] = image[call[d].user] /\ Knows(d)
          /\ call[d].user \notin crossed
      BY <1>1, <2>1 DEF ProfileShape
    <3> QED
      BY <1>0, <1>3, <2>1, <3>1 DEF Knows, Kept
  <2>2. CASE call[d].user = w
    <3>1. ~AtProfile(c)
      BY <2>2 DEF ProfileShape, Alone
    <3> QED
      BY <2>2, <3>1
  <2> QED
    BY <2>1, <2>2
<1>5. ASSUME NEW u \in Users \ {w}, AtRest(u)' PROVE Kept(image[u])'
  <2>1. AtRest(u)
    BY <1>0, <1>5 DEF AtRest
  <2>2. image[u] # NoFile => image[u] \in NamedBy(u) /\ image[u] # gone
    BY Names DEF ProfileShape, Owned
  <2> QED
    BY <2>1, <2>2 DEF ProfileShape, Kept
<1> QED
  BY <1>2, <1>4, <1>5

\* No file is named by two users.
LEMMA OwnedNext == AccountInv /\ AccountNext => Owned'
<1> SUFFICES ASSUME AccountInv, AccountNext PROVE Owned'
  OBVIOUS
<1>0. /\ CallShape /\ CallShape' /\ Owned /\ image \in [Users -> Picture]
  BY CallShapeNext DEF AccountInv, ProfileShape
<1>1. ASSUME NEW w \in Users, NEW new, image' \in [Users -> Picture],
             \A v \in Users : NamedBy(v) \cap new = {},
             \A u \in Users : \A f \in NamedBy(u)' : f \in NamedBy(u) \/ (u = w /\ f \in new)
      PROVE  Owned'
  BY <1>0, <1>1 DEF Owned
<1>2. ASSUME PicturesQuiet PROVE Owned'
  <2>1. ASSUME NEW u \in Users PROVE NamedBy(u)' \subseteq NamedBy(u)
    BY <1>2 DEF PicturesQuiet, pictures, NamedBy
  <2> QED
    BY <1>0, <2>1 DEF Owned
<1>3. ASSUME Crash PROVE Owned'
  <2>1. \A d \in Calls : ~AtProfile(d)'
    BY <1>3, OpOf DEF Crash, AtProfile
  <2>2. ASSUME NEW u \in Users PROVE NamedBy(u)' \subseteq NamedBy(u)
    BY <1>3, <2>1 DEF Crash, NamedBy
  <2> QED
    BY <1>0, <2>2 DEF Owned
<1>4. ASSUME NEW c \in Calls, Unlink(c) \/ WriteProfile(c) \/ ClearImage(c) \/ UnlinkLast(c)
      PROVE  Owned'
  <2> DEFINE w == call[c].user
  <2>1. call[c] \in ProfileRequest /\ AtProfile(c)
    BY <1>0, <1>4, KindOf
       DEF Unlink, WriteProfile, ClearImage, UnlinkLast, End, Goon, CallShape, AtProfile
  <2>2. /\ w \in Users
        /\ call[c].old \in NamedBy(w) \cup {NoFile} /\ call[c].file \in NamedBy(w) \cup {NoFile}
    BY <1>0, <2>1, Names DEF ProfileRequest
  <2>3. PICK r \in Request :
           /\ call' = [call EXCEPT ![c] = r]
           /\ \/ r = Idle
              \/ r.user = w /\ r.old = call[c].old /\ r.file = call[c].file
    <3>1. ASSUME NEW op \in {"write", "unlinkLast"}
          PROVE  /\ [call[c] EXCEPT !.op = op] \in Request
                 /\ [call[c] EXCEPT !.op = op].user = w
                 /\ [call[c] EXCEPT !.op = op].old = call[c].old
                 /\ [call[c] EXCEPT !.op = op].file = call[c].file
      BY <2>1 DEF ProfileRequest, Request
    <3>2. Idle \in Request
      BY DEF Request
    <3> QED
      BY <1>4, <3>1, <3>2 DEF Unlink, WriteProfile, ClearImage, UnlinkLast, End, Goon
  <2>4. \/ image' = image
        \/ \E x \in {call[c].file, call[c].old, NoFile} : image' = [image EXCEPT ![w] = x]
    BY <1>4 DEF Unlink, WriteProfile, ClearImage, UnlinkLast
  <2>5. call[c].file \in Picture /\ call[c].old \in Picture /\ NoFile \in Picture
    BY <2>1 DEF ProfileRequest, Picture
  <2> DEFINE new == {}
  <2>9. \A v \in Users : NamedBy(v) \cap new = {}
    OBVIOUS
  <2> HIDE DEF w, new
  <2>6. /\ image' \in [Users -> Picture]
        /\ \A v \in Users : \/ image'[v] = image[v]
                            \/ v = w /\ image'[v] \in NamedBy(w) \cup {NoFile}
    BY <1>0, <2>2, <2>4, <2>5
  <2>7. AtProfile(c)' => /\ r.user = w /\ r.old \in NamedBy(w) \cup {NoFile}
                         /\ r.file \in NamedBy(w) \cup new \cup {NoFile}
    BY <1>0, <2>2, <2>3, OpOf DEF AtProfile, CallShape
  <2>8. \A u \in Users : \A f \in NamedBy(u)' : f \in NamedBy(u) \/ (u = w /\ f \in new)
    BY <1>0, <2>2, <2>3, <2>6, <2>7, NamesMoved
  <2> QED
    BY <1>1, <2>2, <2>6, <2>8, <2>9
<1>5. ASSUME NEW c \in Calls, NEW w \in Users, RemoveProfile(c, w) PROVE Owned'
  <2> DEFINE r == [op |-> "clear", user |-> w, file |-> NoFile, old |-> image[w]]
  <2>1. /\ call' = [call EXCEPT ![c] = r] /\ image' = image
        /\ r \in Request /\ r.user = w /\ r.file = NoFile /\ r.old = image[w]
    BY <1>0, <1>5 DEF RemoveProfile, Begin, Request, ProfileRequest, Picture
  <2>2. image[w] \in NamedBy(w) \cup {NoFile}
    BY <1>0, Names
  <2> DEFINE new == {}
  <2>4. \A v \in Users : NamedBy(v) \cap new = {}
    OBVIOUS
  <2> HIDE DEF r, new
  <2>3. \A u \in Users : \A f \in NamedBy(u)' : f \in NamedBy(u) \/ (u = w /\ f \in new)
    BY <1>0, <2>1, <2>2, NamesMoved
  <2> QED
    BY <1>0, <1>1, <2>1, <2>3, <2>4
<1>6. ASSUME NEW c \in Calls, NEW w \in Users, NEW f \in Files \cup {NoFile}, UpdateProfile(c, w, f)
      PROVE  Owned'
  <2> DEFINE r == [op |-> IF f # NoFile /\ image[w] # NoFile THEN "unlink" ELSE "write",
                   user |-> w, file |-> f, old |-> image[w]]
             new == {f} \ {NoFile}
  <2>1. /\ call' = [call EXCEPT ![c] = r] /\ image' = image
        /\ r \in Request /\ r.user = w /\ r.file = f /\ r.old = image[w]
    BY <1>0, <1>6 DEF UpdateProfile, Begin, Request, ProfileRequest, Picture
  <2>2. image[w] \in NamedBy(w) \cup {NoFile}
    BY <1>0, Names
  <2>3. f = NoFile \/ ~Named(f)
    BY <1>6 DEF UpdateProfile
  <2>4. \A v \in Users : NamedBy(v) \cap new = {}
    BY <1>0, <2>3, Names DEF Named
  <2>5. r.file \in NamedBy(w) \cup new \cup {NoFile}
    BY <2>1
  <2> HIDE DEF r, new
  <2>6. \A u \in Users : \A g \in NamedBy(u)' : g \in NamedBy(u) \/ (u = w /\ g \in new)
    BY <1>0, <2>1, <2>2, <2>5, NamesMoved
  <2> QED
    BY <1>0, <1>1, <2>1, <2>4, <2>6
<1> QED
  BY <1>2, <1>3, <1>4, <1>5, <1>6, QuietOnPictures DEF AccountNext, ProfileStep

\* Who is crossed by a change of user u's profile.
LEMMA CrossingIs ==
  ASSUME NEW u
  PROVE  /\ (\E c \in Calls : AtProfile(c) /\ call[c].user = u) => Crossing(u) = {u}
         /\ Crossing(u) \subseteq {u}
BY DEF Crossing

\* A picture that a row at rest names is there.
LEMMA ProfileShapeNext == AccountInv /\ AccountNext => ProfileShape'
<1> SUFFICES ASSUME AccountInv, AccountNext PROVE ProfileShape'
  OBVIOUS
<1>0. /\ CallShape /\ Owned /\ ProfileShape /\ NoFile \notin Files
      /\ call \in [Calls -> Request] /\ image \in [Users -> Picture] /\ disk \subseteq Files
  BY AccountConstants DEF AccountInv, ProfileShape, CallShape
<1>1. ASSUME PicturesQuiet PROVE ProfileShape'
  <2>1. UNCHANGED <<image, disk, crossed>>
    BY <1>1 DEF PicturesQuiet, pictures
  <2>2. \A d \in Calls : /\ AtProfile(d)' <=> AtProfile(d)
                         /\ AtProfile(d) => call'[d] = call[d]
    BY <1>1 DEF PicturesQuiet
  <2>3. Alone'
    BY <1>0, <2>1, <2>2 DEF ProfileShape, Alone
  <2>4. ASSUME NEW d \in Calls PROVE Knows(d)'
    <3>1. Knows(d)
      BY <1>0 DEF ProfileShape
    <3> QED
      BY <2>1, <2>2, <3>1 DEF Knows, Kept
  <2>5. ASSUME NEW u \in Users, AtRest(u)' PROVE Kept(image[u])'
    BY <1>0, <2>1, <2>2, <2>5 DEF ProfileShape, AtRest, Kept
  <2> QED
    BY <1>0, <2>1, <2>3, <2>4, <2>5 DEF ProfileShape
<1>2. ASSUME Crash PROVE ProfileShape'
  <2>1. \A d \in Calls : ~AtProfile(d)'
    BY <1>2, OpOf DEF Crash, AtProfile
  <2>2. UNCHANGED <<image, disk>> /\ crossed' = crossed \cup {u \in Users : Crossing(u) # {}}
    BY <1>2 DEF Crash
  <2>3. ASSUME NEW u \in Users, AtRest(u)' PROVE AtRest(u)
    BY <2>2, <2>3, CrossingIs DEF AtRest
  <2> QED
    BY <1>0, <2>1, <2>2, <2>3 DEF ProfileShape, Alone, Knows, AtRest, Kept
<1>3. ASSUME NEW c \in Calls, NEW w \in Users, RemoveProfile(c, w) PROVE ProfileShape'
  <2> DEFINE r == [op |-> "clear", user |-> w, file |-> NoFile, old |-> image[w]]
  <2>1. /\ call' = [call EXCEPT ![c] = r] /\ call[c] = Idle
        /\ image' = image /\ disk' = disk /\ crossed' = crossed \cup Crossing(w)
        /\ r \in Request /\ r.user = w /\ r.op = "clear"
    BY <1>0, <1>3 DEF RemoveProfile, Begin, Request, ProfileRequest, Picture
  <2> HIDE DEF r
  <2>2. /\ ~AtProfile(c) /\ AtProfile(c)' /\ call'[c] = r
        /\ w \in crossed' \/ \A d \in Calls : AtProfile(d) => call[d].user # w
    BY <1>0, <2>1, OpOf, CrossingIs DEF AtProfile
  <2>3. /\ Alone'
        /\ \A d \in Calls \ {c} : Knows(d)'
        /\ \A u \in Users \ {w} : AtRest(u)' => Kept(image[u])'
    BY <1>0, <2>1, <2>2, OthersKeep
  <2>4. Knows(c)' /\ ~AtRest(w)'
    BY <2>1, <2>2 DEF Knows, AtRest
  <2> QED
    BY <1>0, <2>1, <2>3, <2>4 DEF ProfileShape
<1>4. ASSUME NEW c \in Calls, NEW w \in Users, NEW f \in Files \cup {NoFile}, UpdateProfile(c, w, f)
      PROVE  ProfileShape'
  <2> DEFINE r == [op |-> IF f # NoFile /\ image[w] # NoFile THEN "unlink" ELSE "write",
                   user |-> w, file |-> f, old |-> image[w]]
  <2>1. /\ call' = [call EXCEPT ![c] = r] /\ call[c] = Idle
        /\ image' = image /\ crossed' = crossed \cup Crossing(w)
        /\ disk' = disk \cup ({f} \ {NoFile}) /\ (f = NoFile \/ ~Named(f))
        /\ r \in Request /\ r.user = w /\ r.file = f /\ r.old = image[w]
        /\ r.op = IF f # NoFile /\ image[w] # NoFile THEN "unlink" ELSE "write"
    BY <1>0, <1>4 DEF UpdateProfile, Begin, Request, ProfileRequest, Picture
  <2> HIDE DEF r
  <2>2. /\ ~AtProfile(c) /\ AtProfile(c)' /\ call'[c] = r
        /\ w \in crossed' \/ \A d \in Calls : AtProfile(d) => call[d].user # w
    BY <1>0, <2>1, OpOf, CrossingIs DEF AtProfile
  <2>3. /\ Alone'
        /\ \A d \in Calls \ {c} : Knows(d)'
        /\ \A u \in Users \ {w} : AtRest(u)' => Kept(image[u])'
    BY <1>0, <2>1, <2>2, OthersKeep
  <2>4. Knows(c)'
    <3> SUFFICES ASSUME w \notin crossed' PROVE Knows(c)'
      BY <2>1, <2>2 DEF Knows
    <3>1. Kept(image[w])
      BY <1>0, <2>1, <2>2 DEF ProfileShape, AtRest
    <3>2. f # NoFile => f # image[w]
      BY <2>1 DEF Named
    <3> QED
      BY <2>1, <2>2, <3>1, <3>2 DEF Knows, Kept
  <2>5. ~AtRest(w)'
    BY <2>1, <2>2 DEF AtRest
  <2> QED
    BY <1>0, <2>1, <2>3, <2>4, <2>5 DEF ProfileShape
<1>5. ASSUME NEW c \in Calls, Unlink(c) \/ WriteProfile(c) \/ ClearImage(c) \/ UnlinkLast(c)
      PROVE  ProfileShape'
  <2>1. call[c] \in ProfileRequest /\ AtProfile(c)
    BY <1>0, <1>5, KindOf DEF Unlink, WriteProfile, ClearImage, UnlinkLast, End, Goon, AtProfile
  <2>0. PICK w : w = call[c].user
    OBVIOUS
  <2>2. /\ w \in Users
        /\ call[c].old \in NamedBy(w) \cup {NoFile} /\ call[c].file \in NamedBy(w) \cup {NoFile}
        /\ call[c].old \in Picture /\ call[c].file \in Picture
    BY <1>0, <2>1, <2>0, Names DEF ProfileRequest
  <2>3. ASSUME NEW op \in {"write", "unlinkLast"}
        PROVE  LET r == [call[c] EXCEPT !.op = op]
               IN  /\ r \in Request /\ r.op = op /\ r.user = w
                   /\ r.old = call[c].old /\ r.file = call[c].file
    BY <2>1, <2>0 DEF ProfileRequest, Request
  <2>4. Idle \in Request /\ Idle.op = "idle"
    BY DEF Request, Idle
  <2>5. Knows(c) /\ (w \notin crossed => \A d \in Calls : AtProfile(d) /\ d # c => call[d].user # w)
    BY <1>0, <2>1, <2>0 DEF ProfileShape, Alone
  <2>6. ASSUME NEW r \in Request, NEW gone \in NamedBy(w) \cup {NoFile},
               /\ call' = [call EXCEPT ![c] = r] /\ crossed' = crossed
               /\ image' \in [Users -> Picture] /\ disk' \subseteq Files
               /\ \A v \in Users \ {w} : image'[v] = image[v]
               /\ \A h \in disk : h \in disk' \/ h = gone
               /\ r.op \in {"write", "unlinkLast", "idle"}
               /\ r.op \in {"write", "unlinkLast"} => r.user = w,
               w \notin crossed => /\ r.op = "write" => Kept(IF r.file = NoFile THEN r.old
                                                                                ELSE r.file)'
                                   /\ r.op = "unlinkLast" => image'[w] = NoFile
                                   /\ r.op = "idle" => Kept(image[w])'
        PROVE  ProfileShape'
    <3>1. call'[c] = r /\ (AtProfile(c)' <=> r.op # "idle")
      BY <1>0, <2>6 DEF AtProfile
    <3>2. /\ Alone'
          /\ \A d \in Calls \ {c} : Knows(d)'
          /\ \A u \in Users \ {w} : AtRest(u)' => Kept(image[u])'
      <4>1. /\ AtProfile(c) => call[c].user = w
            /\ AtProfile(c)' => r.user = w
        BY <2>0, <2>6, <3>1
      <4> QED
        BY <1>0, <2>1, <2>2, <2>6, <4>1, OthersKeep
    <3>3. Knows(c)'
      BY <2>6, <3>1 DEF Knows
    <3>4. AtRest(w)' => Kept(image[w])'
      BY <2>6, <3>1 DEF AtRest
    <3> QED
      BY <2>6, <3>2, <3>3, <3>4 DEF ProfileShape
  <2>7. CASE Unlink(c)
    <3>5. PICK r, gone : r = [call[c] EXCEPT !.op = "write"] /\ gone = call[c].old
      OBVIOUS
    <3>1. /\ call' = [call EXCEPT ![c] = r] /\ UNCHANGED <<image, crossed>>
          /\ disk' = disk \ {gone} /\ call[c].op = "unlink"
      BY <2>7, <3>5 DEF Unlink, Goon
    <3>2. /\ r \in Request /\ r.op = "write" /\ r.user = w
          /\ r.old = call[c].old /\ r.file = call[c].file
      BY <2>3, <3>5
    <3>3. w \notin crossed => Kept(IF r.file = NoFile THEN r.old ELSE r.file)'
      <4>1. w \notin crossed => call[c].file \in disk /\ call[c].file # gone
        BY <2>0, <2>1, <2>5, <3>1, <3>5 DEF Knows
      <4> QED
        BY <1>0, <3>1, <3>2, <4>1 DEF Kept
    <3>4. gone \in NamedBy(w) \cup {NoFile}
      BY <2>2, <3>5
    <3> QED
      BY <1>0, <2>6, <3>1, <3>2, <3>3, <3>4
  <2>8. CASE WriteProfile(c)
    <3>5. PICK x : x = IF call[c].file = NoFile THEN call[c].old ELSE call[c].file
      OBVIOUS
    <3>1. /\ call' = [call EXCEPT ![c] = Idle] /\ UNCHANGED <<disk, crossed>>
          /\ image' = [image EXCEPT ![w] = x] /\ call[c].op = "write"
      BY <2>0, <2>8, <3>5 DEF WriteProfile, End, Goon
    <3>2. x \in Picture /\ (w \notin crossed => Kept(x))
      BY <2>0, <2>1, <2>2, <2>5, <3>1, <3>5 DEF Knows
    <3>3. /\ image' \in [Users -> Picture] /\ image'[w] = x
          /\ \A v \in Users \ {w} : image'[v] = image[v]
      BY <1>0, <2>2, <3>1, <3>2
    <3>4. w \notin crossed => Kept(image[w])'
      BY <3>1, <3>2, <3>3 DEF Kept
    <3> QED
      BY <1>0, <2>4, <2>6, <3>1, <3>3, <3>4
  <2>9. CASE ClearImage(c)
    <3>5. PICK r : r = [call[c] EXCEPT !.op = "unlinkLast"]
      OBVIOUS
    <3>1. /\ call' = [call EXCEPT ![c] = r] /\ UNCHANGED <<disk, crossed>>
          /\ image' = [image EXCEPT ![w] = NoFile]
      BY <2>0, <2>9, <3>5 DEF ClearImage, Goon
    <3>2. r \in Request /\ r.op = "unlinkLast" /\ r.user = w
      BY <2>3, <3>5
    <3>3. /\ image' \in [Users -> Picture] /\ image'[w] = NoFile
          /\ \A v \in Users \ {w} : image'[v] = image[v]
      BY <1>0, <2>2, <3>1 DEF Picture
    <3> QED
      BY <1>0, <2>6, <3>1, <3>2, <3>3
  <2>10. CASE UnlinkLast(c)
    <3>5. PICK gone : gone = call[c].old
      OBVIOUS
    <3>1. /\ call' = [call EXCEPT ![c] = Idle] /\ UNCHANGED <<image, crossed>>
          /\ disk' = disk \ {gone} /\ call[c].op = "unlinkLast"
      BY <2>10, <3>5 DEF UnlinkLast, End, Goon
    <3>2. w \notin crossed => Kept(image[w])'
      BY <2>0, <2>1, <2>5, <3>1 DEF Knows, Kept
    <3>3. gone \in NamedBy(w) \cup {NoFile}
      BY <2>2, <3>5
    <3> QED
      BY <1>0, <2>4, <2>6, <3>1, <3>2, <3>3
  <2> QED
    BY <1>5, <2>7, <2>8, <2>9, <2>10
<1> QED
  BY <1>1, <1>2, <1>3, <1>4, <1>5, QuietOnPictures DEF AccountNext, ProfileStep

-----------------------------------------------------------------------------
(* Staff                                                                    *)

\* Staff that has been put out of service has no active row.
LEMMA StaffShapeNext == AccountInv /\ AccountNext => StaffShape'
<1> SUFFICES ASSUME AccountInv, AccountNext PROVE StaffShape'
  OBVIOUS
<1>0. /\ StaffShape /\ CallShape /\ call \in [Calls -> Request]
      /\ codes \in 0..MaxCodes /\ image \in [Users -> Picture]
      /\ NoRow.status # "ACTIVE"
  BY DEF AccountInv, CallShape, CodeShape, ProfileShape, NoRow
<1>1. ASSUME UNCHANGED people PROVE StaffShape'
  BY <1>0, <1>1 DEF people, StaffShape
<1>2. ASSUME NEW c \in Calls, CodeStep(c) \/ ProfileStep(c) PROVE StaffShape'
  BY <1>0, <1>1, <1>2, CodeMoves, ProfileMoves
<1>3. ASSUME NEW c \in Calls, InsertStaff(c) PROVE StaffShape'
  <2>1. call[c].row \in Row
    BY <1>0, <1>3, KindOf DEF InsertStaff, End, Goon, InsertRequest
  <2>2. PICK s \in Staff : s \notin revoked /\ staff' = [staff EXCEPT ![s] = call[c].row]
    BY <1>3 DEF InsertStaff
  <2>3. UNCHANGED <<badges, revoked>>
    BY <1>3 DEF InsertStaff
  <2> QED
    BY <1>0, <2>1, <2>2, <2>3 DEF StaffShape
<1>4. ASSUME NEW c \in Calls, WriteStaff(c) PROVE StaffShape'
  <2> DEFINE s == call[c].id
             row == IF call[c].asked = {} THEN call[c].read ELSE CHOOSE r \in call[c].asked : TRUE
  <2>1. call[c] \in UpdateRequest
    BY <1>0, <1>4, KindOf DEF WriteStaff, End, Goon
  <2>2. s \in Staff /\ row \in Row
    BY <2>1 DEF UpdateRequest
  <2>3. /\ badges' = badges
        /\ \/ UNCHANGED <<staff, revoked>>
           \/ /\ staff' = [staff EXCEPT ![s] = row]
              /\ revoked' = IF row.status = "ACTIVE" THEN revoked \ {s} ELSE revoked \cup {s}
    BY <1>4 DEF WriteStaff
  <2> HIDE DEF s, row
  <2> QED
    BY <1>0, <2>2, <2>3 DEF StaffShape
<1>5. ASSUME NEW c \in Calls, DeleteStaff(c) PROVE StaffShape'
  <2>1. call[c].id \in Staff
    BY <1>0, <1>5, KindOf DEF DeleteStaff, End, Goon, DeleteRequest
  <2> QED
    BY <1>0, <1>5, <2>1 DEF DeleteStaff, StaffShape
<1>6. ASSUME NEW s \in Staff, StaffLogin(s) PROVE StaffShape'
  BY <1>0, <1>6 DEF StaffLogin, StaffShape
<1>7. ASSUME Crash \/ (\E k \in Purposes \X Emails : CodeExpires(k))
                   \/ (\E u \in Users : ChangeStatus(u) \/ \E p \in Emails : SetPassword(p, u))
      PROVE  StaffShape'
  BY <1>1, <1>7 DEF Crash, CodeExpires, SetPassword, ChangeStatus
<1>8. ASSUME NEW c \in Calls, StaffStep(c) PROVE StaffShape'
  <2>1. ASSUME NEW row \in Row, CreateStaff(c, row) PROVE StaffShape'
    BY <1>1, <2>1 DEF CreateStaff
  <2>2. ASSUME NEW s \in Staff, Admit(c, s) \/ RemoveStaff(c, s) PROVE StaffShape'
    BY <1>1, <2>2 DEF Admit, RemoveStaff
  <2>3. ASSUME NEW s \in Staff, NEW asked, UpdateStaff(c, s, asked) PROVE StaffShape'
    BY <1>1, <2>3 DEF UpdateStaff
  <2> QED
    BY <1>3, <1>4, <1>5, <1>8, <2>1, <2>2, <2>3 DEF StaffStep
<1> QED
  BY <1>2, <1>6, <1>7, <1>8 DEF AccountNext

-----------------------------------------------------------------------------
(* All parts together                                                       *)

\* Rows, tokens and budgets keep to their sets.
LEMMA RestTypesNext == AccountInv /\ AccountNext => RestTypes'
<1> SUFFICES ASSUME AccountInv, AccountNext PROVE RestTypes'
  OBVIOUS
<1>0. /\ RestTypes /\ CallShape /\ call \in [Calls -> Request] /\ MaxRequests \in Nat
  BY AccountConstants DEF AccountInv, CallShape, RestTypes
<1> USE <1>0 DEF RestTypes
<1>1. ASSUME NEW c \in Calls, CodeStep(c) PROVE RestTypes'
  <2>1. ASSUME NEW e \in Emails, Auth(c, e) \/ ForgotPrepare(c, e) PROVE RestTypes'
    BY <2>1 DEF Auth, ForgotPrepare, Begin, mail, rows, pictures
  <2>2. ASSUME NEW p, NEW e, NEW f, NEW n, ReadCode(c, p, f, e, n) PROVE RestTypes'
    BY <2>2 DEF ReadCode, Types, Begin, rows, pictures
  <2>3. ASSUME SignUp(c) PROVE RestTypes'
    <3>1. call[c].email \in Emails
      BY <2>3, KindOf DEF SignUp, Goon, MailRequest
    <3> QED
      BY <2>3, <3>1 DEF SignUp, Goon, RowsOf, mail, pictures
  <2>4. ASSUME StoreCode(c) \/ MailCode(c) \/ FindUser(c) PROVE RestTypes'
    BY <2>4 DEF StoreCode, MailCode, FindUser, End, Goon, rows, pictures
  <2>5. ASSUME SetVerified(c) PROVE RestTypes'
    <3>1. call[c].user \in Users
      BY <2>5, KindOf DEF SetVerified, Goon, SpendRequest
    <3> QED
      BY <2>5, <3>1 DEF SetVerified, Goon, pictures
  <2>6. ASSUME SpendCode(c) PROVE RestTypes'
    BY <2>6 DEF SpendCode, Grant, End, Goon, pictures
  <2> QED
    BY <1>1, <2>1, <2>2, <2>3, <2>4, <2>5, <2>6 DEF CodeStep
<1>2. ASSUME NEW c \in Calls, ProfileStep(c) PROVE RestTypes'
  <2>1. ASSUME NEW u \in Users, RemoveProfile(c, u) PROVE RestTypes'
    BY <2>1, CrossingIs DEF RemoveProfile, Begin, mail, rows
  <2>2. ASSUME NEW u \in Users, NEW f, UpdateProfile(c, u, f) PROVE RestTypes'
    BY <2>2, CrossingIs DEF UpdateProfile, Begin, mail, rows
  <2>3. ASSUME Unlink(c) \/ WriteProfile(c) \/ ClearImage(c) \/ UnlinkLast(c) PROVE RestTypes'
    BY <2>3 DEF Unlink, WriteProfile, ClearImage, UnlinkLast, End, Goon, mail, rows, pictures
  <2> QED
    BY <1>2, <2>1, <2>2, <2>3 DEF ProfileStep
<1>3. ASSUME NEW c \in Calls, StaffStep(c) PROVE RestTypes'
  <2>1. ASSUME NEW s \in Staff, Admit(c, s) PROVE RestTypes'
    BY <2>1 DEF Admit, Begin, mail, rows, pictures
  <2>2. ASSUME NEW r, CreateStaff(c, r) PROVE RestTypes'
    BY <2>2 DEF CreateStaff, Goon, mail, rows, pictures
  <2>3. ASSUME NEW s \in Staff, NEW asked, RemoveStaff(c, s) \/ UpdateStaff(c, s, asked)
        PROVE  RestTypes'
    BY <2>3 DEF RemoveStaff, UpdateStaff, Goon, mail, rows, pictures
  <2>4. ASSUME InsertStaff(c) \/ WriteStaff(c) \/ DeleteStaff(c) PROVE RestTypes'
    BY <2>4 DEF InsertStaff, WriteStaff, DeleteStaff, End, Goon, mail, rows, pictures
  <2> QED
    BY <1>3, <2>1, <2>2, <2>3, <2>4 DEF StaffStep
<1>4. ASSUME NEW k \in Purposes \X Emails, CodeExpires(k) PROVE RestTypes'
  BY <1>4 DEF CodeExpires, rows, pictures
<1>5. ASSUME NEW u \in Users, ChangeStatus(u) \/ \E p \in Emails : SetPassword(p, u) PROVE RestTypes'
  BY <1>5 DEF SetPassword, ChangeStatus, mail, pictures
<1>6. ASSUME NEW s \in Staff, StaffLogin(s) PROVE RestTypes'
  BY <1>6 DEF StaffLogin, mail, rows, pictures
<1>7. ASSUME Crash PROVE RestTypes'
  BY <1>7 DEF Crash, mail, rows
<1> HIDE <1>0 DEF RestTypes
<1> QED
  BY <1>1, <1>2, <1>3, <1>4, <1>5, <1>6, <1>7 DEF AccountNext

\* Nothing has been sent, spent, stored or asked for at first.
LEMMA AccountInitInv == AccountInit => AccountInv
<1> SUFFICES ASSUME AccountInit PROVE AccountInv
  OBVIOUS
<1>0. MaxCodes \in Nat /\ MaxRequests \in Nat /\ NoEmail \notin Emails /\ NoFile \notin Files
  BY AccountConstants
<1>1. /\ call = [c \in Calls |-> Idle] /\ image = [u \in Users |-> NoFile] /\ disk = {}
      /\ otp = [k \in Purposes \X Emails |-> 0] /\ codes = 0 /\ spent = {} /\ mailbox = {}
      /\ verified = {} /\ password = {} /\ tokens = {} /\ resets = {} /\ crossed = {}
      /\ badges = {} /\ revoked = {} /\ left = MaxRequests /\ email = [u \in Users |-> NoEmail]
  BY DEF AccountInit
<1>2. \A c \in Calls : ~HoldsCode(c) /\ ~HasRead(c) /\ ~HasFound(c) /\ ~AtProfile(c)
                       /\ call[c].op = "idle"
  BY <1>1, OpOf DEF HoldsCode, HasRead, HasFound, AtProfile
<1>3. CallShape
  BY <1>1 DEF CallShape, Request
<1>4. CodeShape
  BY <1>0, <1>1, <1>2 DEF CodeShape, CodeSpent, OnePlace, Place
<1>5. ProvenShape
  BY <1>1, <1>2 DEF ProvenShape, AddressProven, ReaderOf
<1>6. Owned
  BY <1>1, <1>2 DEF Owned, NamedBy
<1>7. ProfileShape
  BY <1>1, <1>2 DEF ProfileShape, Alone, Knows, AtRest, Kept, Picture
<1>8. StaffShape
  <2>1. \A l \in Logins : [status |-> "ACTIVE", login |-> l, role |-> "ADMIN"] \in Row
    BY DEF Row, Statuses, Roles
  <2>2. staff \in [Staff -> {NoRow} \cup {[status |-> "ACTIVE", login |-> l, role |-> "ADMIN"]
                                              : l \in Logins}]
    BY DEF AccountInit
  <2> QED
    BY <1>1, <2>1, <2>2 DEF StaffShape
<1>9. RestTypes
  BY <1>0, <1>1 DEF RestTypes
<1> QED
  BY <1>3, <1>4, <1>5, <1>6, <1>7, <1>8, <1>9 DEF AccountInv

\* A step that changes nothing keeps everything.
LEMMA AccountStutter == AccountInv /\ UNCHANGED accountVars => AccountInv'
<1> SUFFICES ASSUME AccountInv, UNCHANGED accountVars PROVE AccountInv'
  OBVIOUS
<1>1. UNCHANGED <<email, verified, password, otp, codes, tokens, resets, image, disk, staff,
                  badges, call, left, mailbox, spent, crossed, revoked>>
  BY DEF accountVars, mail, rows, pictures, people
<1>2. (CallShape /\ CodeShape /\ ProvenShape)'
  BY <1>1 DEF AccountInv, CallShape, CodeShape, CodeSpent, OnePlace, Place, HoldsCode, ProvenShape,
              AddressProven, Proven, ReaderOf, HasRead, HasFound
<1>3. Owned'
  BY <1>1 DEF AccountInv, Owned, NamedBy, AtProfile
<1>4. ProfileShape'
  BY <1>1 DEF AccountInv, ProfileShape, Alone, Knows, AtRest, Kept, AtProfile
<1>5. (StaffShape /\ RestTypes)'
  BY <1>1 DEF AccountInv, StaffShape, RestTypes
<1> QED
  BY <1>2, <1>3, <1>4, <1>5 DEF AccountInv

\* One step keeps the invariant.
LEMMA AccountNextInv == AccountInv /\ [AccountNext]_accountVars => AccountInv'
BY CallShapeNext, CodeShapeNext, ProvenShapeNext, OwnedNext, ProfileShapeNext, StaffShapeNext,
   RestTypesNext, AccountStutter DEF AccountInv

-----------------------------------------------------------------------------
(* Theorems                                                                 *)

\* The inductive invariant of codes, profiles and staff
THEOREM AccountInvariant == AccountSpec => []AccountInv
BY AccountInitInv, AccountNextInv, PTL DEF AccountSpec

\* Rows, codes and what requests remember stay well typed; tokens are of
\* verified users, passwords of users that held a reset token.
THEOREM AccountTypeCorrect == AccountSpec => []AccountTypeOK
<1>1. ASSUME AccountInv PROVE AccountTypeOK
  <2>1. ASSUME NEW c \in Calls PROVE CallOK(call[c])
    <3>1. call[c] \in Request
      BY <1>1 DEF AccountInv, CallShape
    <3>2. CASE call[c] = Idle
      BY <3>2 DEF Idle, CallOK
    <3>3. CASE call[c] \in MailRequest
      BY <3>3 DEF MailRequest, CallOK
    <3>4. CASE call[c] \in CodeRequest
      BY <3>4 DEF CodeRequest, PostRequest, FindRequest, SpendRequest, CallOK
    <3>5. CASE call[c] \in ProfileRequest
      BY <3>5 DEF ProfileRequest, Picture, CallOK
    <3>6. CASE call[c] \in AdmittedRequest
      BY <3>6 DEF AdmittedRequest, CallOK
    <3>7. CASE call[c] \in InsertRequest
      BY <3>7 DEF InsertRequest, CallOK
    <3>8. CASE call[c] \in UpdateRequest
      BY <3>8 DEF UpdateRequest, CallOK
    <3>9. CASE call[c] \in DeleteRequest
      BY <3>9 DEF DeleteRequest, CallOK
    <3> QED
      BY <3>1, <3>2, <3>3, <3>4, <3>5, <3>6, <3>7, <3>8, <3>9 DEF Request
  <2>2. /\ otp \in [Purposes \X Emails -> 0..MaxCodes] /\ codes \in 0..MaxCodes
        /\ spent \subseteq 1..codes /\ mailbox \subseteq Purposes \X Emails \X (1..codes)
    BY <1>1, AccountConstants DEF AccountInv, CodeShape
  <2> QED
    BY <1>1, <2>1, <2>2
       DEF AccountInv, ProvenShape, ProfileShape, Picture, StaffShape, RestTypes, AccountTypeOK
<1> QED
  BY <1>1, AccountInvariant, PTL

\* A code whose use has been completed is stored nowhere, for any number of
\* requests that read it before.
THEOREM CodesSpentOnce == AccountSpec => []CodeSpent
<1>1. AccountInv => CodeSpent
  BY DEF AccountInv, CodeShape
<1> QED
  BY <1>1, AccountInvariant, PTL

\* Whoever holds a token for a user, or has set the user's password, reads the
\* mail of that user's address and received a code for the purpose there, for
\* any number of persons, addresses, rows and requests, each stopped between any
\* two of its steps.
THEOREM TokensAreProven == AccountSpec => []AddressProven
<1>1. AccountInv => AddressProven
  BY DEF AccountInv, ProvenShape
<1> QED
  BY <1>1, AccountInvariant, PTL

\* The picture that a profile names is there, unless changes of that profile
\* crossed or one was cut off.
THEOREM PicturesAreKept == AccountSpec => []PictureKept
<1>1. AccountInv => PictureKept
  BY DEF AccountInv, ProfileShape, AtRest, Kept, PictureKept
<1> QED
  BY <1>1, AccountInvariant, PTL

\* No step lets in a member of staff that was put out of service.
THEOREM RevokedAreKeptOut == AccountSpec => RevokedStaysOut
<1>1. ASSUME AccountInv, [AccountNext]_accountVars, NEW c \in Calls,
             call'[c].op = "admitted", call[c] = Idle
      PROVE  call'[c].by \notin revoked
  <2>0. /\ StaffShape /\ CallShape /\ call \in [Calls -> Request] /\ Idle.op = "idle"
        /\ codes \in 0..MaxCodes /\ image \in [Users -> Picture]
    BY <1>1, OpOf DEF AccountInv, CallShape, CodeShape, ProfileShape
  <2>1. call'[c] # call[c]
    BY <1>1, <2>0
  <2>2. ASSUME NEW d \in Calls, NEW S, Moves(d, S),
               "admitted" \notin {r.op : r \in S}
        PROVE  FALSE
    BY <1>1, <2>0, <2>1, <2>2 DEF Moves
  <2>3. ASSUME NEW d \in Calls, CodeStep(d) \/ ProfileStep(d) PROVE FALSE
    <3>1. Moves(d, MailRequest \cup CodeRequest) \/ Moves(d, ProfileRequest)
      BY <2>0, <2>3, CodeMoves, ProfileMoves
    <3>2. /\ "admitted" \notin {r.op : r \in MailRequest \cup CodeRequest}
          /\ "admitted" \notin {r.op : r \in ProfileRequest}
      BY OpOf DEF CodeRequest
    <3> QED
      BY <2>2, <3>1, <3>2
  <2>4. ASSUME NEW d \in Calls, StaffStep(d) PROVE call'[c].by \notin revoked
    <3>1. ASSUME NEW r, NEW op, Goon(d, op, r), op # "idle" PROVE FALSE
      BY <1>1, <2>0, <2>1, <3>1 DEF Goon
    <3>2. ASSUME NEW s \in Staff, Admit(d, s) PROVE call'[c].by \notin revoked
      <4>1. call' = [call EXCEPT ![d] = [op |-> "admitted", by |-> s]] /\ staff[s].status = "ACTIVE"
        BY <3>2 DEF Admit, Begin
      <4>2. call'[c].by = s
        BY <2>0, <2>1, <4>1
      <4> QED
        BY <2>0, <4>1, <4>2 DEF StaffShape
    <3>3. ASSUME NEW r, CreateStaff(d, r) PROVE FALSE
      BY <3>1, <3>3 DEF CreateStaff
    <3>4. ASSUME NEW s, NEW asked, RemoveStaff(d, s) \/ UpdateStaff(d, s, asked) PROVE FALSE
      BY <3>1, <3>4 DEF RemoveStaff, UpdateStaff
    <3>5. ASSUME InsertStaff(d) \/ WriteStaff(d) \/ DeleteStaff(d) PROVE FALSE
      BY <3>1, <3>5 DEF InsertStaff, WriteStaff, DeleteStaff, End
    <3> QED
      BY <2>4, <3>2, <3>3, <3>4, <3>5 DEF StaffStep
  <2>5. ASSUME Crash PROVE FALSE
    BY <1>1, <2>0, <2>1, <2>5 DEF Crash
  <2>6. CASE UNCHANGED call
    BY <2>1, <2>6
  <2> QED
    BY <1>1, <2>3, <2>4, <2>5, <2>6
       DEF AccountNext, accountVars, CodeExpires, SetPassword, ChangeStatus, StaffLogin
<1>2. AccountInv /\ [AccountNext]_accountVars
      => [\A c \in Calls : call'[c].op = "admitted" /\ call[c] = Idle
            => call'[c].by \notin revoked]_accountVars
  BY <1>1
<1> QED
  BY <1>2, AccountInvariant, PTL DEF AccountSpec, RevokedStaysOut
=============================================================================
