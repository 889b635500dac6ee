---------------------------- MODULE AccountsProofs ----------------------------
(***************************************************************************)
(* Theorems about Accounts, for any number of users, phones, addresses,    *)
(* codes and open handlers.                                                *)
(***************************************************************************)
EXTENDS Accounts, TLAPS

\* TypeOK, variable by variable.
AccountTypes ==
    /\ account \in [Users -> Account \cup {NoAccount}]
    /\ seller \in [Users -> Seller \cup {NoSeller}]
    /\ \A u \in Users : IsSeller(u) => Exists(u)

BookTypes == book \in [Users -> SUBSET Address] /\ minted \in Nat

CodeTypes ==
    /\ otp \in [Keys -> 0..MaxCodes] /\ fresh \in [Keys -> 0..MaxCodes]
    /\ sent \in 0..MaxCodes
    /\ accepted \in [1..MaxCodes -> Nat]

EntryTypes == sessions \subseteq Users /\ turnedAway \subseteq Users

SlotTypes ==
    /\ calls \in 0..MaxCalls
    /\ pc \in [Slots -> {"idle"} \cup Steps]
    /\ job \in [Slots -> Jobs \cup {Free}]
    /\ \A r \in Slots : pc[r] # "idle" => job[r] \in Jobs

LEMMA TypeParts ==
    TypeOK <=> /\ serial \in BOOLEAN
               /\ AccountTypes /\ BookTypes /\ CodeTypes /\ EntryTypes /\ SlotTypes
BY DEF TypeOK, AccountTypes, BookTypes, CodeTypes, EntryTypes, SlotTypes

\* The locals of a handler.
LEMMA JobTyped ==
    ASSUME NEW x \in Jobs
    PROVE  /\ x.op = "verify" => x.key \in Keys /\ x.code \in Nat
           /\ x.op = "reset" => x.key \in Keys /\ x.user \in Users /\ x.password \in Passwords
           /\ x.op = "register" =>
                 /\ x.kind \in Role /\ x.phone \in Phones /\ x.email \in Emails
                 /\ x.password \in Passwords /\ x.user \in Users \cup {NoUser}
                 /\ x.roles \in SUBSET Role
           /\ x.op \in {"approve", "reject", "requestChanges", "resubmit"} =>
                 x.user \in Users /\ x.seen \in Status
           /\ x.op \in {"create", "update", "updatePickup"} =>
                 x.user \in Users /\ x.address \in Nat
<1>. DEFINE V == [op : {"verify"}, key : Keys, code : Nat]
            E == [op : {"reset"}, key : Keys, user : Users, password : Passwords]
            G == [op : {"register"}, kind : Role, phone : Phones, email : Emails,
                  password : Passwords, user : Users \cup {NoUser}, roles : SUBSET Role]
            W == [op : {"approve", "reject", "requestChanges", "resubmit"}, user : Users,
                  seen : Status]
            B == [op : {"create", "update", "updatePickup"}, user : Users, address : Nat]
<1>1. x \in V \/ x \in E \/ x \in G \/ x \in W \/ x \in B
  BY DEF Jobs
<1>2. CASE x \in V
  BY <1>2
<1>3. CASE x \in E
  BY <1>3
<1>4. CASE x \in G
  BY <1>4
<1>5. CASE x \in W
  BY <1>5
<1>6. CASE x \in B
  BY <1>6
<1>7. QED
  BY <1>1, <1>2, <1>3, <1>4, <1>5, <1>6

-----------------------------------------------------------------------------
(***************************************************************************)
(* What a step does to the slots.                                          *)
(***************************************************************************)
Others(r) == \A q \in Slots \ {r} : pc'[q] = pc[q] /\ job'[q] = job[q]

LEMMA BeginStep ==
    ASSUME TypeOK, NEW r \in Slots, NEW at \in Steps, NEW locals \in Jobs, Begin(r, at, locals)
    PROVE  /\ SlotTypes' /\ Others(r) /\ Admitted
           /\ pc[r] = "idle" /\ pc'[r] = at /\ job'[r] = locals
<1>1. calls' \in 0..MaxCalls
  BY AccountsAssumption DEF Begin, TypeOK
<1>2. QED
  BY <1>1 DEF Begin, TypeOK, SlotTypes, Others

LEMMA GotoStep ==
    ASSUME TypeOK, NEW r \in Slots, NEW at \in Steps, pc[r] # "idle", Goto(r, at)
    PROVE  /\ SlotTypes' /\ Others(r)
           /\ pc'[r] = at /\ job'[r] = job[r]
BY DEF Goto, TypeOK, SlotTypes, Others

LEMMA CloseStep ==
    ASSUME TypeOK, NEW r \in Slots, Close(r)
    PROVE  SlotTypes' /\ Others(r) /\ pc'[r] = "idle"
BY DEF Close, TypeOK, SlotTypes, Others

LEMMA QuietStep ==
    ASSUME TypeOK, UNCHANGED slot
    PROVE  SlotTypes' /\ pc' = pc /\ job' = job
<1>1. calls' = calls /\ pc' = pc /\ job' = job
  BY DEF slot
<1>2. SlotTypes
  BY DEF TypeOK, SlotTypes
<1>3. QED
  BY <1>1, <1>2 DEF SlotTypes

CodeAt == {"drop", "signIn", "password", "forget"}
RegisterAt == {"commit", "login"}
ReviewAt == {"write", "pickup"}
BookAt == {"save", "legacy"}

\* One slot opens for one of the steps, when handlers do not overlap as the only one; or
\* a handler goes on to one of them, or closes.
Turn(r, steps) ==
    /\ Others(r)
    /\ \/ pc[r] = "idle" /\ Admitted /\ pc'[r] \in steps
       \/ pc[r] # "idle" /\ pc'[r] \in steps \cup {"idle"}

Quiet == pc' = pc /\ job' = job

Moved(steps) == Quiet \/ \E r \in Slots : Turn(r, steps)

LEMMA Opens ==
    ASSUME TypeOK, NEW r \in Slots, NEW steps \in SUBSET Steps, NEW at \in steps,
           NEW locals \in Jobs, Begin(r, at, locals)
    PROVE  SlotTypes' /\ Moved(steps)
BY BeginStep DEF Moved, Turn

LEMMA GoesOn ==
    ASSUME TypeOK, NEW r \in Slots, NEW steps \in SUBSET Steps, NEW at \in steps,
           pc[r] # "idle", Goto(r, at)
    PROVE  SlotTypes' /\ Moved(steps)
BY GotoStep DEF Moved, Turn

LEMMA Closes ==
    ASSUME TypeOK, NEW r \in Slots, NEW steps \in SUBSET Steps, pc[r] # "idle", Close(r)
    PROVE  SlotTypes' /\ Moved(steps)
BY CloseStep DEF Moved, Turn

LEMMA IsQuiet ==
    ASSUME TypeOK, UNCHANGED slot, NEW steps
    PROVE  SlotTypes' /\ Moved(steps)
BY QuietStep DEF Moved, Quiet

\* A handler that is at another step after the move was there before.
LEMMA MovedFrame ==
    ASSUME NEW steps, Moved(steps), NEW q \in Slots, pc'[q] \notin steps \cup {"idle"}
    PROVE  pc'[q] = pc[q] /\ job'[q] = job[q]
BY DEF Moved, Quiet, Turn, Others

Alone == \A q, r \in Slots : pc[q] # "idle" /\ pc[r] # "idle" => q = r

LEMMA AloneStep ==
    ASSUME serial, serial' = serial, Alone, NEW steps, Moved(steps)
    PROVE  Alone'
BY DEF Alone, Moved, Quiet, Turn, Others, Admitted

\* The one handler of the system has taken the turn.
LEMMA AloneTurn ==
    ASSUME serial, Alone, NEW steps, NEW r \in Slots, Turn(r, steps), NEW q \in Slots, q # r
    PROVE  pc'[q] = "idle"
BY DEF Alone, Turn, Others, Admitted

LEMMA CodeSlots ==
    ASSUME TypeOK, CodeSteps
    PROVE  SlotTypes' /\ Moved(CodeAt)
<1>0. CodeAt \in SUBSET Steps
  BY DEF CodeAt, Steps
<1>1. ASSUME NEW k \in Keys, SendCode(k) \/ CodeExpires(k)
      PROVE  SlotTypes' /\ Moved(CodeAt)
  BY <1>1, IsQuiet DEF SendCode, CodeExpires, AtOnce
<1>2. ASSUME NEW r \in Slots, NEW k \in Keys, NEW c \in 1..sent, VerifyOtp(r, k, c)
      PROVE  SlotTypes' /\ Moved(CodeAt)
  <2>. DEFINE locals == [op |-> "verify", key |-> k, code |-> c]
  <2>1. locals \in Jobs
    BY DEF Jobs
  <2>2. Begin(r, "drop", locals) /\ "drop" \in CodeAt
    BY <1>2 DEF VerifyOtp, CodeAt
  <2>3. QED
    BY <1>0, <2>1, <2>2, Opens
<1>3. ASSUME NEW r \in Slots, NEW u \in Users, NEW c \in 1..sent, NEW w \in Passwords,
             ResetPassword(r, u, c, w)
      PROVE  SlotTypes' /\ Moved(CodeAt)
  <2>. DEFINE locals == [op |-> "reset", key |-> <<account[u].phone, "reset">>, user |-> u,
                         password |-> w]
  <2>1. account[u].phone \in Phones
    BY <1>3 DEF ResetPassword, TypeOK, Exists, Account
  <2>2. locals \in Jobs
    BY <2>1 DEF Jobs, Keys
  <2>3. Begin(r, "password", locals) /\ "password" \in CodeAt
    BY <1>3 DEF ResetPassword, CodeAt
  <2>4. QED
    BY <1>0, <2>2, <2>3, Opens
<1>4. ASSUME NEW r \in Slots, DropCode(r) \/ WritePassword(r)
      PROVE  SlotTypes' /\ Moved(CodeAt)
  <2>1. pc[r] # "idle" /\ \E at \in CodeAt : Goto(r, at)
    BY <1>4 DEF DropCode, WritePassword, At, CodeAt
  <2>2. QED
    BY <1>0, <2>1, GoesOn
<1>5. ASSUME NEW r \in Slots, SignIn(r) \/ ForgetCode(r)
      PROVE  SlotTypes' /\ Moved(CodeAt)
  <2>1. pc[r] # "idle" /\ Close(r)
    BY <1>5 DEF SignIn, ForgetCode, At
  <2>2. QED
    BY <1>0, <2>1, Closes
<1>6. QED
  BY <1>1, <1>2, <1>3, <1>4, <1>5 DEF CodeSteps

LEMMA RegistrationSlots ==
    ASSUME TypeOK, RegistrationSteps
    PROVE  SlotTypes' /\ Moved(RegisterAt)
<1>0. RegisterAt \in SUBSET Steps
  BY DEF RegisterAt, Steps
<1>1. ASSUME NEW u \in Users, Login(u) \/ SessionExpires(u)
      PROVE  SlotTypes' /\ Moved(RegisterAt)
  BY <1>1, IsQuiet DEF Login, SessionExpires, AtOnce
<1>2. ASSUME NEW r \in Slots, NEW kind \in Role, NEW p \in Phones, NEW e \in Emails,
             NEW w \in Passwords, Register(r, kind, p, e, w)
      PROVE  SlotTypes' /\ Moved(RegisterAt)
  <2>. DEFINE same == {u \in Users : Exists(u) /\ account[u].phone = p}
              of == IF same = {} THEN NoUser ELSE CHOOSE u \in same : TRUE
              locals == [op |-> "register", kind |-> kind, phone |-> p, email |-> e,
                         password |-> w, user |-> of,
                         roles |-> IF of = NoUser THEN {} ELSE account[of].roles]
  <2>1. of = NoUser \/ (of \in Users /\ Exists(of))
    OBVIOUS
  <2>2. (IF of = NoUser THEN {} ELSE account[of].roles) \in SUBSET Role
    BY <2>1 DEF TypeOK, Exists, Account
  <2>. HIDE DEF of
  <2>3. locals \in Jobs
    BY <2>1, <2>2 DEF Jobs
  <2>. USE DEF of
  <2>4. Begin(r, "commit", locals) /\ "commit" \in RegisterAt
    BY <1>2 DEF Register, RegisterAt
  <2>5. QED
    BY <1>0, <2>3, <2>4, Opens
<1>3. ASSUME NEW r \in Slots, CommitRegistration(r)
      PROVE  SlotTypes' /\ Moved(RegisterAt)
  <2>1. pc[r] = "commit" /\ job[r].op = "register" /\ pc' = [pc EXCEPT ![r] = "login"]
        /\ calls' = calls
    BY <1>3 DEF CommitRegistration, At
  <2>2. PICK u \in Users : job' = [job EXCEPT ![r].user = u]
    BY <1>3 DEF CommitRegistration
  <2>3. job[r] \in [op : {"register"}, kind : Role, phone : Phones, email : Emails,
          password : Passwords, user : Users \cup {NoUser}, roles : SUBSET Role]
    BY <2>1 DEF TypeOK, Jobs
  <2>4. job'[r] = [job[r] EXCEPT !.user = u] /\ job'[r] \in Jobs
    BY <2>2, <2>3 DEF TypeOK, Jobs
  <2>5. SlotTypes' /\ Others(r) /\ pc'[r] = "login"
    BY <2>1, <2>2, <2>4 DEF TypeOK, SlotTypes, Others, Steps
  <2>6. QED
    BY <2>1, <2>5 DEF Moved, Turn, RegisterAt
<1>4. ASSUME NEW r \in Slots, LoginRegistered(r)
      PROVE  SlotTypes' /\ Moved(RegisterAt)
  <2>1. pc[r] # "idle" /\ Close(r)
    BY <1>4 DEF LoginRegistered, At
  <2>2. QED
    BY <1>0, <2>1, Closes
<1>5. QED
  BY <1>1, <1>2, <1>3, <1>4 DEF RegistrationSteps

LEMMA ReviewSlots ==
    ASSUME TypeOK, ReviewSteps
    PROVE  SlotTypes' /\ Moved(ReviewAt)
<1>0. ReviewAt \in SUBSET Steps
  BY DEF ReviewAt, Steps
<1>1. ASSUME NEW u \in Users, NEW blank \in BOOLEAN,
             \/ ReregisterSeller(u) \/ UpdateProfile(u) \/ UpdateStoreDetails(u, blank)
             \/ UpdateBankDetails(u, blank) \/ UpdateSignature(u, blank)
      PROVE  SlotTypes' /\ Moved(ReviewAt)
  BY <1>1, IsQuiet DEF ReregisterSeller, UpdateProfile, UpdateStoreDetails, UpdateBankDetails,
     UpdateSignature, Fill, AtOnce
<1>2. ASSUME NEW r \in Slots, NEW u \in Users, NEW op \in {"approve", "reject", "requestChanges"},
             ReviewSeller(r, u, op)
      PROVE  SlotTypes' /\ Moved(ReviewAt)
  <2>. DEFINE locals == [op |-> op, user |-> u, seen |-> seller[u].status]
  <2>1. seller[u].status \in Status
    BY <1>2 DEF ReviewSeller, TypeOK, IsSeller, Seller
  <2>2. locals \in Jobs
    BY <2>1 DEF Jobs
  <2>3. Begin(r, "write", locals) /\ "write" \in ReviewAt
    BY <1>2 DEF ReviewSeller, ReviewAt
  <2>4. QED
    BY <1>0, <2>2, <2>3, Opens
<1>3. ASSUME NEW r \in Slots, NEW u \in Users, Resubmit(r, u)
      PROVE  SlotTypes' /\ Moved(ReviewAt)
  <2>. DEFINE locals == [op |-> "resubmit", user |-> u, seen |-> "NEEDS_CHANGES"]
  <2>1. locals \in Jobs
    BY DEF Jobs, Status
  <2>2. Begin(r, "pickup", locals) /\ "pickup" \in ReviewAt
    BY <1>3 DEF Resubmit, ReviewAt
  <2>3. QED
    BY <1>0, <2>1, <2>2, Opens
<1>4. ASSUME NEW r \in Slots, FindPickup(r)
      PROVE  SlotTypes' /\ Moved(ReviewAt)
  <2>1. pc[r] # "idle" /\ Goto(r, "write") /\ "write" \in ReviewAt
    BY <1>4 DEF FindPickup, At, ReviewAt
  <2>2. QED
    BY <1>0, <2>1, GoesOn
<1>5. ASSUME NEW r \in Slots,
             WriteApproval(r) \/ WriteRejection(r) \/ WriteChanges(r) \/ WriteResubmission(r)
      PROVE  SlotTypes' /\ Moved(ReviewAt)
  <2>1. pc[r] # "idle" /\ Close(r)
    BY <1>5 DEF WriteApproval, WriteRejection, WriteChanges, WriteResubmission, WriteSeller, At
  <2>2. QED
    BY <1>0, <2>1, Closes
<1>6. QED
  BY <1>1, <1>2, <1>3, <1>4, <1>5 DEF ReviewSteps

LEMMA BookSlots ==
    ASSUME TypeOK, BookSteps
    PROVE  SlotTypes' /\ Moved(BookAt)
<1>0. BookAt \in SUBSET Steps
  BY DEF BookAt, Steps
<1>1. ASSUME NEW u \in Users, CreateAddress(u) \/ \E i \in Ids(u) : DropDefault(u, i) \/ DeleteAddress(u, i)
      PROVE  SlotTypes' /\ Moved(BookAt)
  BY <1>1, IsQuiet DEF CreateAddress, DropDefault, DeleteAddress, AtOnce
<1>2. ASSUME NEW u \in Users, NEW i \in Ids(u) PROVE i \in Nat
  BY DEF TypeOK, Ids, Address
<1>3. ASSUME NEW r \in Slots, NEW u \in Users, UpdatePickup(r, u)
      PROVE  SlotTypes' /\ Moved(BookAt)
  <2>1. ASSUME NEW i \in Newest(u) PROVE i \in Nat
    <3>1. \A a \in book[u] : a.id \in Nat
      BY DEF TypeOK, Address
    <3>2. QED
      BY <3>1 DEF Newest
  <2>2. PICK i \in Newest(u) : Begin(r, "save", [op |-> "updatePickup", user |-> u, address |-> i])
    BY <1>3 DEF UpdatePickup
  <2>3. [op |-> "updatePickup", user |-> u, address |-> i] \in Jobs
    BY <2>1 DEF Jobs
  <2>4. "save" \in BookAt
    BY DEF BookAt
  <2>5. QED
    BY <1>0, <2>2, <2>3, <2>4, Opens
<1>4. ASSUME NEW r \in Slots, NEW u \in Users, CreateDefaultAddress(r, u)
      PROVE  SlotTypes' /\ Moved(BookAt)
  <2>. DEFINE locals == [op |-> "create", user |-> u, address |-> 0]
  <2>1. locals \in Jobs
    BY DEF Jobs
  <2>2. Begin(r, "save", locals) /\ "save" \in BookAt
    BY <1>4 DEF CreateDefaultAddress, BookAt
  <2>3. QED
    BY <1>0, <2>1, <2>2, Opens
<1>5. ASSUME NEW r \in Slots, NEW u \in Users, NEW i \in Ids(u), MakeDefault(r, u, i)
      PROVE  SlotTypes' /\ Moved(BookAt)
  <2>. DEFINE locals == [op |-> "update", user |-> u, address |-> i]
  <2>1. locals \in Jobs
    BY <1>2 DEF Jobs
  <2>2. Begin(r, "save", locals) /\ "save" \in BookAt
    BY <1>5 DEF MakeDefault, BookAt
  <2>3. QED
    BY <1>0, <2>1, <2>2, Opens
<1>6. ASSUME NEW r \in Slots, SavePickup(r)
      PROVE  SlotTypes' /\ Moved(BookAt)
  <2>1. pc[r] # "idle" /\ Goto(r, "legacy") /\ "legacy" \in BookAt
    BY <1>6 DEF SavePickup, At, BookAt
  <2>2. QED
    BY <1>0, <2>1, GoesOn
<1>7. ASSUME NEW r \in Slots, SaveBusinessAddress(r) \/ SaveNewDefault(r) \/ SaveDefault(r)
      PROVE  SlotTypes' /\ Moved(BookAt)
  <2>1. pc[r] # "idle" /\ Close(r)
    BY <1>7 DEF SaveBusinessAddress, SaveNewDefault, SaveDefault, WriteSeller, At
  <2>2. QED
    BY <1>0, <2>1, Closes
<1>8. QED
  BY <1>1, <1>3, <1>4, <1>5, <1>6, <1>7 DEF BookSteps

-----------------------------------------------------------------------------
(***************************************************************************)
(* What an open handler can count on, whatever the others do.              *)
(***************************************************************************)
Reviews == {"approve", "reject", "requestChanges", "resubmit"}

BoundCode(r) ==
    /\ At(r, "verify", "drop") \/ At(r, "verify", "signIn") => job[r].code \in 1..sent
    /\ At(r, "reset", "password") => Exists(Of(r))

BoundRegister(r) ==
    /\ At(r, "register", "commit") /\ Of(r) # NoUser =>
          Exists(Of(r)) /\ account[Of(r)].email = job[r].email
    /\ At(r, "register", "login") =>
          Of(r) # NoUser /\ Exists(Of(r)) /\ account[Of(r)].email = job[r].email

BoundReview(r) == pc[r] \in ReviewAt => job[r].op \in Reviews /\ IsSeller(Of(r))

BoundBook(r) == pc[r] \in BookAt /\ job[r].op = "updatePickup" => IsSeller(Of(r))

Bound(r) == BoundCode(r) /\ BoundRegister(r) /\ BoundReview(r) /\ BoundBook(r)

\* Users, their e-mails and their shops stay, and codes are never taken back.
Grows ==
    /\ sent <= sent'
    /\ \A u \in Users : /\ Exists(u) => Exists(u)' /\ account'[u].email = account[u].email
                        /\ IsSeller(u) => IsSeller(u)'

LEMMA BoundLasts ==
    ASSUME TypeOK, CodeTypes', Grows, NEW q \in Slots, Bound(q), pc'[q] = pc[q], job'[q] = job[q]
    PROVE  Bound(q)'
<1>1. Of(q)' = Of(q)
  BY DEF Of
<1>2. BoundCode(q)'
  <2>1. CASE At(q, "verify", "drop") \/ At(q, "verify", "signIn")
    <3>1. job[q].code \in 1..sent
      BY <2>1 DEF Bound, BoundCode
    <3>2. sent <= sent' /\ sent \in Nat /\ sent' \in Nat
      BY AccountsAssumption DEF Grows, TypeOK, CodeTypes
    <3>3. job'[q].code \in 1..sent'
      BY <3>1, <3>2
    <3>4. QED
      BY <2>1, <3>3 DEF BoundCode, At
  <2>2. CASE At(q, "reset", "password")
    <3>1. Of(q) \in Users
      BY <2>2, JobTyped DEF TypeOK, At, Of
    <3>2. Exists(Of(q))'
      BY <1>1, <2>2, <3>1 DEF Bound, BoundCode, Grows
    <3>3. QED
      BY <2>2, <3>2 DEF BoundCode, At
  <2>3. CASE /\ ~At(q, "verify", "drop") /\ ~At(q, "verify", "signIn")
             /\ ~At(q, "reset", "password")
    BY <2>3 DEF BoundCode, At
  <2>4. QED
    BY <2>1, <2>2, <2>3
<1>3. BoundRegister(q)'
  <2>1. CASE At(q, "register", "commit") \/ At(q, "register", "login")
    <3>1. Of(q) \in Users \cup {NoUser}
      BY <2>1, JobTyped DEF TypeOK, At, Of
    <3>2. CASE Of(q) # NoUser
      <4>1. Exists(Of(q))' /\ account'[Of(q)].email = job[q].email
        BY <1>1, <2>1, <3>1, <3>2 DEF Bound, BoundRegister, Grows
      <4>2. QED
        BY <1>1, <3>2, <4>1 DEF BoundRegister, At
    <3>3. CASE Of(q) = NoUser
      BY <1>1, <2>1, <3>3 DEF Bound, BoundRegister, At
    <3>4. QED
      BY <3>2, <3>3
  <2>2. CASE ~At(q, "register", "commit") /\ ~At(q, "register", "login")
    BY <2>2 DEF BoundRegister, At
  <2>3. QED
    BY <2>1, <2>2
<1>4. BoundReview(q)' /\ BoundBook(q)'
  <2>1. ASSUME IsSeller(Of(q)), pc[q] # "idle", job[q].op \in Reviews \cup {"updatePickup"}
        PROVE  IsSeller(Of(q))'
    <3>1. Of(q) \in Users
      BY <2>1, JobTyped DEF TypeOK, Of, Reviews
    <3>2. QED
      BY <1>1, <2>1, <3>1 DEF Grows
  <2>2. "idle" \notin ReviewAt /\ "idle" \notin BookAt
    BY DEF ReviewAt, BookAt
  <2>3. BoundReview(q)'
    BY <1>1, <2>1, <2>2 DEF Bound, BoundReview
  <2>4. BoundBook(q)'
    BY <1>1, <2>1, <2>2 DEF Bound, BoundBook
  <2>5. QED
    BY <2>3, <2>4
<1>5. QED
  BY <1>2, <1>3, <1>4 DEF Bound

\* After a move, what a handler counts on is new only at the steps moved to.
LEMMA BoundMoved ==
    ASSUME TypeOK, CodeTypes', Grows, \A q \in Slots : Bound(q),
           NEW steps \in SUBSET Steps, Moved(steps), NEW r \in Slots,
           pc'[r] \notin steps
    PROVE  Bound(r)'
<1>1. CASE pc'[r] = "idle"
  BY <1>1 DEF Bound, BoundCode, BoundRegister, BoundReview, BoundBook, At, ReviewAt, BookAt
<1>2. CASE pc'[r] # "idle"
  BY <1>2, MovedFrame, BoundLasts
<1>3. QED
  BY <1>1, <1>2

LEMMA CodeTyped ==
    ASSUME TypeOK, \A q \in Slots : Bound(q), CodeSteps
    PROVE  /\ UNCHANGED <<serial, seller, book, minted, turnedAway>>
           /\ AccountTypes' /\ BookTypes' /\ CodeTypes' /\ EntryTypes' /\ Grows
<1>. USE AccountsAssumption
<1>1. ASSUME NEW k \in Keys, SendCode(k)
      PROVE  /\ UNCHANGED <<serial, account, seller, book, minted, turnedAway>>
             /\ CodeTypes' /\ sessions' \subseteq Users /\ sent <= sent'
  <2>1. sent + 1 \in 0..MaxCodes /\ sent' = sent + 1
    BY <1>1 DEF SendCode, TypeOK
  <2>2. otp' = [otp EXCEPT ![k] = sent + 1] /\ fresh' = [fresh EXCEPT ![k] = sent + 1]
        /\ accepted' = accepted
    BY <1>1 DEF SendCode
  <2>3. CodeTypes'
    BY <2>1, <2>2 DEF TypeOK, CodeTypes
  <2>4. QED
    BY <1>1, <2>1, <2>3 DEF SendCode, OnlyCodes, entry, TypeOK
<1>2. ASSUME NEW k \in Keys, CodeExpires(k)
      PROVE  /\ UNCHANGED <<serial, account, seller, book, minted, turnedAway>>
             /\ CodeTypes' /\ sessions' \subseteq Users /\ sent <= sent'
  BY <1>2 DEF CodeExpires, OnlyCodes, entry, TypeOK, CodeTypes
<1>3. ASSUME NEW r \in Slots, NEW k \in Keys, NEW c \in 1..sent, VerifyOtp(r, k, c)
      PROVE  /\ UNCHANGED <<serial, account, seller, book, minted, turnedAway>>
             /\ CodeTypes' /\ sessions' \subseteq Users /\ sent <= sent'
  BY <1>3 DEF VerifyOtp, OnlySlot, OnlyCodes, codes, entry, TypeOK, CodeTypes
<1>4. ASSUME NEW r \in Slots, NEW u \in Users, NEW c \in 1..sent, NEW w \in Passwords,
             ResetPassword(r, u, c, w)
      PROVE  /\ UNCHANGED <<serial, account, seller, book, minted, turnedAway>>
             /\ CodeTypes' /\ sessions' \subseteq Users /\ sent <= sent'
  BY <1>4 DEF ResetPassword, OnlySlot, OnlyCodes, codes, entry, TypeOK, CodeTypes
<1>5. ASSUME NEW r \in Slots, DropCode(r)
      PROVE  /\ UNCHANGED <<serial, account, seller, book, minted, turnedAway>>
             /\ CodeTypes' /\ sessions' \subseteq Users /\ sent <= sent'
  <2>1. /\ otp' = [otp EXCEPT ![job[r].key] = 0]
        /\ fresh' = [fresh EXCEPT ![job[r].key] = IF @ = job[r].code THEN 0 ELSE @]
        /\ sent' = sent /\ accepted' = accepted
    BY <1>5 DEF DropCode
  <2>2. job[r].key \in Keys
    BY <1>5, JobTyped DEF DropCode, At, TypeOK
  <2>3. CodeTypes'
    BY <2>1, <2>2 DEF TypeOK, CodeTypes
  <2>4. QED
    BY <1>5, <2>1, <2>3 DEF DropCode, OnlyCodes, entry, TypeOK
<1>6. ASSUME NEW r \in Slots, SignIn(r)
      PROVE  /\ UNCHANGED <<serial, account, seller, book, minted, turnedAway>>
             /\ CodeTypes' /\ sessions' \subseteq Users /\ sent <= sent'
  <2>1. job[r].code \in 1..MaxCodes
    BY <1>6 DEF SignIn, Bound, BoundCode, TypeOK
  <2>2. accepted' = [accepted EXCEPT ![job[r].code] = @ + 1] /\ UNCHANGED <<otp, fresh, sent>>
    BY <1>6 DEF SignIn
  <2>3. CodeTypes'
    BY <2>1, <2>2 DEF TypeOK, CodeTypes
  <2>4. QED
    BY <1>6, <2>3 DEF SignIn, OnlyCodes, TypeOK
<1>7. ASSUME NEW r \in Slots, ForgetCode(r)
      PROVE  /\ UNCHANGED <<serial, account, seller, book, minted, turnedAway>>
             /\ CodeTypes' /\ sessions' \subseteq Users /\ sent <= sent'
  <2>1. job[r].key \in Keys
    BY <1>7, JobTyped DEF ForgetCode, At, TypeOK
  <2>2. otp' = [otp EXCEPT ![job[r].key] = 0] /\ UNCHANGED <<fresh, sent, accepted>>
    BY <1>7 DEF ForgetCode
  <2>3. CodeTypes'
    BY <2>1, <2>2 DEF TypeOK, CodeTypes
  <2>4. QED
    BY <1>7, <2>2, <2>3 DEF ForgetCode, OnlyCodes, entry, TypeOK
<1>8. ASSUME UNCHANGED <<serial, account, seller, book, minted, turnedAway>>,
             CodeTypes', sessions' \subseteq Users, sent <= sent'
      PROVE  /\ UNCHANGED <<serial, seller, book, minted, turnedAway>>
             /\ AccountTypes' /\ BookTypes' /\ CodeTypes' /\ EntryTypes' /\ Grows
  BY <1>8 DEF TypeOK, AccountTypes, BookTypes, EntryTypes, Grows, Exists, IsSeller
<1>9. ASSUME NEW r \in Slots, WritePassword(r)
      PROVE  /\ UNCHANGED <<serial, seller, book, minted, turnedAway>>
             /\ AccountTypes' /\ BookTypes' /\ CodeTypes' /\ EntryTypes' /\ Grows
  <2>1. /\ account' = [account EXCEPT ![Of(r)].password = job[r].password]
        /\ fresh' = [fresh EXCEPT ![job[r].key] = 0]
        /\ UNCHANGED <<serial, seller, book, minted, otp, sent, accepted>> /\ UNCHANGED entry
    BY <1>9 DEF WritePassword
  <2>2. /\ Of(r) \in Users /\ job[r].password \in Passwords /\ Exists(Of(r))
        /\ job[r].key \in Keys
    BY <1>9, JobTyped DEF WritePassword, At, TypeOK, Of, Bound, BoundCode
  <2>3. account[Of(r)] \in Account
    BY <2>2 DEF TypeOK, Exists
  <2>4. /\ [account[Of(r)] EXCEPT !.password = job[r].password] \in Account
        /\ [account[Of(r)] EXCEPT !.password = job[r].password] # NoAccount
        /\ [account[Of(r)] EXCEPT !.password = job[r].password].email = account[Of(r)].email
    BY <2>2, <2>3 DEF Account, NoAccount
  <2>5. /\ account' \in [Users -> Account \cup {NoAccount}]
        /\ \A u \in Users : Exists(u) => Exists(u)' /\ account'[u].email = account[u].email
    BY <2>1, <2>2, <2>4 DEF TypeOK, Exists
  <2>6. AccountTypes'
    BY <2>1, <2>5 DEF TypeOK, AccountTypes, IsSeller
  <2>7. BookTypes' /\ CodeTypes' /\ EntryTypes'
    BY <2>1, <2>2 DEF TypeOK, BookTypes, CodeTypes, EntryTypes, entry
  <2>8. Grows
    BY <2>1, <2>5 DEF Grows, TypeOK, IsSeller
  <2>9. QED
    BY <2>1, <2>6, <2>7, <2>8 DEF entry
<1>10. QED
  BY <1>1, <1>2, <1>3, <1>4, <1>5, <1>6, <1>7, <1>8, <1>9 DEF CodeSteps

\* What a step that leaves the codes alone does to the tables.
Unspent == UNCHANGED <<serial, otp, fresh, sent, accepted>>
Kept == AccountTypes' /\ BookTypes' /\ CodeTypes' /\ EntryTypes' /\ Grows

LEMMA SameTables ==
    ASSUME TypeOK, UNCHANGED <<account, seller, book, minted>>, Unspent,
           sessions' \subseteq Users, turnedAway' \subseteq Users
    PROVE  Kept
BY DEF TypeOK, AccountTypes, BookTypes, CodeTypes, EntryTypes, Kept, Grows, Unspent, Exists, IsSeller

LEMMA InsertTyped ==
    ASSUME TypeOK, NEW u \in Users, NEW kept \in SUBSET Address,
           NEW type \in {"SHIPPING", "PICKUP"}, NEW mark \in BOOLEAN, Insert(u, kept, type, mark)
    PROVE  BookTypes'
<1>1. minted + 1 \in Nat /\ minted' = minted + 1
  BY DEF Insert, TypeOK
<1>2. [id |-> minted + 1, type |-> type, isDefault |-> mark] \in Address
  BY <1>1 DEF Address
<1>3. QED
  BY <1>1, <1>2 DEF Insert, TypeOK, BookTypes

\* The account's row after a registration.
LEMMA UserCommitted ==
    ASSUME TypeOK, NEW r \in Slots, BoundRegister(r), At(r, "register", "commit"),
           NEW u \in Users, CommitUser(r, u)
    PROVE  /\ account' \in [Users -> Account \cup {NoAccount}]
           /\ \A v \in Users : Exists(v) => Exists(v)' /\ account'[v].email = account[v].email
           /\ \A v \in Users \ {u} : account'[v] = account[v]
           /\ account'[u] \in Account /\ Exists(u)'
           /\ account'[u].email = job[r].email /\ account'[u].password = job[r].password
           /\ account'[u].roles = (IF Exists(u) THEN job[r].roles ELSE {}) \cup {job[r].kind}
           /\ account'[u].buyer = ((Exists(u) /\ account[u].buyer) \/ job[r].kind = "BUYER")
           /\ Of(r) \in {NoUser, u}
           /\ Exists(u) <=> Of(r) # NoUser
<1>1. /\ job[r].kind \in Role /\ job[r].phone \in Phones /\ job[r].email \in Emails
      /\ job[r].password \in Passwords /\ job[r].roles \in SUBSET Role
      /\ Of(r) \in Users \cup {NoUser}
  BY JobTyped DEF At, TypeOK, Of
<1>2. CASE Of(r) # NoUser
  <2>. DEFINE row == [account[u] EXCEPT !.password = job[r].password,
                                        !.roles = job[r].roles \cup {job[r].kind},
                                        !.buyer = @ \/ job[r].kind = "BUYER"]
  <2>1. /\ Of(r) = u /\ Exists(u) /\ account[u].email = job[r].email
        /\ account' = [account EXCEPT ![u] = row]
    BY <1>2 DEF CommitUser, BoundRegister
  <2>2. account[u] \in Account
    BY <2>1 DEF TypeOK, Exists
  <2>3. /\ row \in Account /\ row.email = account[u].email /\ row.password = job[r].password
        /\ row.roles = job[r].roles \cup {job[r].kind}
        /\ row.buyer = (account[u].buyer \/ job[r].kind = "BUYER")
    BY <1>1, <2>2 DEF Account
  <2>4. row # NoAccount
    BY <1>1, <2>2, <2>3 DEF Account, NoAccount
  <2>. HIDE DEF row
  <2>5. account'[u] = row /\ \A v \in Users \ {u} : account'[v] = account[v]
    BY <2>1 DEF TypeOK
  <2>6. account' \in [Users -> Account \cup {NoAccount}]
    BY <2>1, <2>3 DEF TypeOK
  <2>7. /\ \A v \in Users : Exists(v) => Exists(v)' /\ account'[v].email = account[v].email
        /\ Exists(u)'
    BY <2>3, <2>4, <2>5 DEF Exists
  <2>8. QED
    BY <1>2, <2>1, <2>3, <2>5, <2>6, <2>7
<1>3. CASE Of(r) = NoUser
  <2>. DEFINE row == [phone |-> job[r].phone, email |-> job[r].email,
                      password |-> job[r].password, roles |-> {job[r].kind},
                      buyer |-> job[r].kind = "BUYER"]
  <2>1. ~Exists(u) /\ account' = [account EXCEPT ![u] = row]
    BY <1>3 DEF CommitUser
  <2>2. row \in Account
    BY <1>1 DEF Account
  <2>3. /\ row.email = job[r].email /\ row.password = job[r].password
        /\ row.roles = {job[r].kind} /\ row.buyer = (job[r].kind = "BUYER")
    OBVIOUS
  <2>4. row # NoAccount
    BY <2>3 DEF NoAccount
  <2>. HIDE DEF row
  <2>5. account'[u] = row /\ \A v \in Users \ {u} : account'[v] = account[v]
    BY <2>1 DEF TypeOK
  <2>6. account' \in [Users -> Account \cup {NoAccount}]
    BY <2>1, <2>2 DEF TypeOK
  <2>7. /\ \A v \in Users : Exists(v) => Exists(v)' /\ account'[v].email = account[v].email
        /\ Exists(u)'
    BY <2>1, <2>4, <2>5 DEF Exists
  <2>8. QED
    BY <1>3, <2>1, <2>2, <2>3, <2>5, <2>6, <2>7
<1>4. QED
  BY <1>2, <1>3

\* The shop after a registration: under review, without a reason.
LEMMA SellerCommitted ==
    ASSUME TypeOK, NEW u \in Users, CommitSeller(u)
    PROVE  /\ seller' \in [Users -> Seller \cup {NoSeller}]
           /\ BookTypes'
           /\ \A v \in Users \ {u} : seller'[v] = seller[v]
           /\ seller'[u] \in Seller /\ IsSeller(u)'
           /\ seller'[u].status = "PENDING" /\ seller'[u].reason = "none"
           /\ "categories" \notin seller'[u].missing
           /\ seller'[u].asked = IF IsSeller(u) THEN seller[u].asked ELSE "NONE"
<1>. DEFINE row == [status |-> "PENDING", reason |-> "none",
             missing |-> IF IsSeller(u) THEN seller[u].missing \cap {"signature"} ELSE {"signature"},
             asked |-> IF IsSeller(u) THEN seller[u].asked ELSE "NONE"]
            kept == {IF a.type = "PICKUP" THEN [a EXCEPT !.isDefault = FALSE] ELSE a : a \in book[u]}
<1>1. row \in Seller
  BY DEF TypeOK, IsSeller, Seller, Status, Reason, Profile
<1>2. row # NoSeller /\ "categories" \notin row.missing
  BY DEF NoSeller
<1>3. seller' = [seller EXCEPT ![u] = row]
  BY DEF CommitSeller
<1>4. kept \in SUBSET Address
  <2>1. ASSUME NEW a \in Address PROVE [a EXCEPT !.isDefault = FALSE] \in Address
    BY DEF Address
  <2>2. book[u] \subseteq Address
    BY DEF TypeOK
  <2>3. QED
    BY <2>1, <2>2
<1>5. BookTypes'
  BY <1>4, InsertTyped DEF CommitSeller
<1>6. /\ row.status = "PENDING" /\ row.reason = "none"
      /\ row.asked = IF IsSeller(u) THEN seller[u].asked ELSE "NONE"
  OBVIOUS
<1>. HIDE DEF row
<1>7. QED
  BY <1>1, <1>2, <1>3, <1>5, <1>6 DEF TypeOK, IsSeller

LEMMA RegistrationTyped ==
    ASSUME TypeOK, \A q \in Slots : Bound(q), RegistrationSteps
    PROVE  Unspent /\ Kept
<1>1. ASSUME NEW u \in Users, Login(u) \/ SessionExpires(u)
      PROVE  Unspent /\ Kept
  <2>1. /\ UNCHANGED <<account, seller, book, minted>> /\ Unspent /\ turnedAway' = turnedAway
        /\ sessions' \subseteq sessions \cup {u}
    BY <1>1 DEF Login, SessionExpires, OnlyCodes, codes, Unspent
  <2>2. QED
    BY <2>1, SameTables DEF TypeOK
<1>2. ASSUME NEW r \in Slots, NEW kind \in Role, NEW p \in Phones, NEW e \in Emails,
             NEW w \in Passwords, Register(r, kind, p, e, w)
      PROVE  Unspent /\ Kept
  BY <1>2, SameTables DEF Register, OnlySlot, OnlyCodes, codes, entry, Unspent, TypeOK
<1>3. ASSUME NEW r \in Slots, CommitRegistration(r)
      PROVE  Unspent /\ Kept
  <2>1. PICK u \in Users :
          /\ CommitUser(r, u)
          /\ IF job[r].kind = "SELLER" THEN CommitSeller(u) ELSE UNCHANGED <<seller, book, minted>>
    BY <1>3 DEF CommitRegistration
  <2>2. At(r, "register", "commit") /\ Unspent /\ UNCHANGED <<sessions, turnedAway>>
    BY <1>3 DEF CommitRegistration, codes, entry, Unspent
  <2>3. BoundRegister(r)
    BY DEF Bound
  <2>4. /\ account' \in [Users -> Account \cup {NoAccount}]
        /\ \A v \in Users : Exists(v) => Exists(v)' /\ account'[v].email = account[v].email
        /\ Exists(u)'
    BY <2>1, <2>2, <2>3, UserCommitted
  <2>5. /\ seller' \in [Users -> Seller \cup {NoSeller}] /\ BookTypes'
        /\ \A v \in Users \ {u} : seller'[v] = seller[v]
        /\ IsSeller(u) => IsSeller(u)'
    <3>1. CASE job[r].kind = "SELLER"
      BY <2>1, <3>1, SellerCommitted
    <3>2. CASE job[r].kind # "SELLER"
      BY <2>1, <3>2 DEF TypeOK, BookTypes, IsSeller
    <3>3. QED
      BY <3>1, <3>2
  <2>6. AccountTypes'
    BY <2>4, <2>5 DEF AccountTypes, TypeOK, IsSeller
  <2>7. CodeTypes' /\ EntryTypes' /\ Grows
    BY <2>2, <2>4, <2>5 DEF CodeTypes, EntryTypes, Grows, Unspent, TypeOK, IsSeller
  <2>8. QED
    BY <2>2, <2>5, <2>6, <2>7 DEF Kept
<1>4. ASSUME NEW r \in Slots, LoginRegistered(r)
      PROVE  Unspent /\ Kept
  <2>1. UNCHANGED <<account, seller, book, minted>> /\ Unspent /\ At(r, "register", "login")
    BY <1>4 DEF LoginRegistered, OnlyCodes, codes, Unspent
  <2>2. Of(r) \in Users
    BY <2>1, JobTyped DEF Bound, BoundRegister, At, Of, TypeOK
  <2>3. sessions' \subseteq Users /\ turnedAway' \subseteq Users
    BY <1>4, <2>2 DEF LoginRegistered, TypeOK
  <2>4. QED
    BY <2>1, <2>3, SameTables
<1>5. QED
  BY <1>1, <1>2, <1>3, <1>4 DEF RegistrationSteps

\* A write to one seller's row.
LEMMA SellerWritten ==
    ASSUME TypeOK, NEW u \in Users, IsSeller(u), NEW s \in Seller,
           seller' = [seller EXCEPT ![u] = s],
           UNCHANGED <<account, sessions, turnedAway>>, Unspent, BookTypes'
    PROVE  Kept
<1>1. s # NoSeller
  BY DEF Seller, NoSeller
<1>2. /\ AccountTypes'
      /\ \A v \in Users : /\ Exists(v) => Exists(v)' /\ account'[v].email = account[v].email
                          /\ IsSeller(v) => IsSeller(v)'
  BY <1>1 DEF TypeOK, AccountTypes, IsSeller, Exists
<1>3. CodeTypes' /\ EntryTypes' /\ sent <= sent'
  BY DEF TypeOK, CodeTypes, EntryTypes, Unspent
<1>4. QED
  BY <1>2, <1>3 DEF Kept, Grows

LEMMA WriteTyped ==
    ASSUME TypeOK, NEW r \in Slots, Of(r) \in Users, IsSeller(Of(r)), NEW s \in Seller,
           WriteSeller(r, s)
    PROVE  Unspent /\ Kept
<1>1. /\ seller' = [seller EXCEPT ![Of(r)] = s] /\ Unspent
      /\ UNCHANGED <<account, book, minted, sessions, turnedAway>>
  BY DEF WriteSeller, OnlySeller, codes, entry, Unspent
<1>2. BookTypes'
  BY <1>1 DEF TypeOK, BookTypes
<1>3. QED
  BY <1>1, <1>2, SellerWritten

LEMMA ReviewTyped ==
    ASSUME TypeOK, \A q \in Slots : Bound(q), ReviewSteps
    PROVE  Unspent /\ Kept
<1>1. ASSUME NEW r \in Slots, NEW u \in Users,
             (\E op \in {"approve", "reject", "requestChanges"} : ReviewSeller(r, u, op))
                \/ Resubmit(r, u)
      PROVE  Unspent /\ Kept
  BY <1>1, SameTables DEF ReviewSeller, Resubmit, OnlySlot, OnlyCodes, codes, entry, Unspent, TypeOK
<1>2. ASSUME NEW r \in Slots, FindPickup(r)
      PROVE  Unspent /\ Kept
  BY <1>2, SameTables DEF FindPickup, OnlySlot, OnlyCodes, codes, entry, Unspent, TypeOK
<1>3. ASSUME NEW r \in Slots,
             WriteApproval(r) \/ WriteRejection(r) \/ WriteChanges(r) \/ WriteResubmission(r)
      PROVE  Unspent /\ Kept
  <2>1. pc[r] = "write" /\ job[r].op \in Reviews
    BY <1>3 DEF WriteApproval, WriteRejection, WriteChanges, WriteResubmission, At, Reviews
  <2>2. Of(r) \in Users /\ IsSeller(Of(r)) /\ job[r].seen \in Status
    BY <2>1, JobTyped DEF Bound, BoundReview, ReviewAt, Reviews, TypeOK, Of
  <2>3. seller[Of(r)] \in Seller
    BY <2>2 DEF TypeOK, IsSeller
  <2>4. /\ [seller[Of(r)] EXCEPT !.status = "VERIFIED", !.reason = "none"] \in Seller
        /\ [seller[Of(r)] EXCEPT !.status = "REJECTED", !.reason = "rejected"] \in Seller
        /\ [seller[Of(r)] EXCEPT !.status = "NEEDS_CHANGES", !.asked = job[r].seen] \in Seller
        /\ [seller[Of(r)] EXCEPT !.status = "PENDING", !.reason = "none"] \in Seller
    BY <2>2, <2>3 DEF Seller, Status, Reason
  <2>5. \E s \in Seller : WriteSeller(r, s)
    BY <1>3, <2>4 DEF WriteApproval, WriteRejection, WriteChanges, WriteResubmission
  <2>6. QED
    BY <2>2, <2>5, WriteTyped
<1>4. ASSUME NEW u \in Users, ReregisterSeller(u)
      PROVE  Unspent /\ Kept
  <2>. DEFINE row == [seller[u] EXCEPT !.status = "PENDING", !.reason = "reset", !.missing = Profile]
  <2>1. IsSeller(u) /\ seller[u] \in Seller
    BY <1>4 DEF ReregisterSeller, IsSeller, TypeOK
  <2>2. row \in Seller
    BY <2>1 DEF Seller, Status, Reason
  <2>3. /\ seller' = [seller EXCEPT ![u] = row] /\ Unspent
        /\ book' = [book EXCEPT ![u] = {a \in @ : a.type # "PICKUP"}]
        /\ UNCHANGED <<account, minted, sessions, turnedAway>>
    BY <1>4 DEF ReregisterSeller, codes, entry, Unspent
  <2>. HIDE DEF row
  <2>4. BookTypes'
    BY <2>3 DEF TypeOK, BookTypes
  <2>5. QED
    BY <2>1, <2>2, <2>3, <2>4, SellerWritten
<1>5. ASSUME NEW u \in Users, NEW x \in Profile, NEW blank \in BOOLEAN, Fill(u, x, blank)
      PROVE  Unspent /\ Kept
  <2>. DEFINE row == [seller[u] EXCEPT !.missing = IF blank THEN @ \cup {x} ELSE @ \ {x}]
  <2>1. IsSeller(u) /\ seller[u] \in Seller
    BY <1>5 DEF Fill, OwnsStore, IsSeller, TypeOK
  <2>2. row \in Seller
    BY <2>1 DEF Seller
  <2>3. /\ seller' = [seller EXCEPT ![u] = row] /\ Unspent
        /\ UNCHANGED <<account, book, minted, sessions, turnedAway>>
    BY <1>5 DEF Fill, OnlySeller, codes, entry, Unspent
  <2>. HIDE DEF row
  <2>4. BookTypes'
    BY <2>3 DEF TypeOK, BookTypes
  <2>5. QED
    BY <2>1, <2>2, <2>3, <2>4, SellerWritten
<1>6. ASSUME NEW u \in Users, NEW blank \in BOOLEAN,
             \/ UpdateProfile(u) \/ UpdateStoreDetails(u, blank)
             \/ UpdateBankDetails(u, blank) \/ UpdateSignature(u, blank)
      PROVE  Unspent /\ Kept
  BY <1>5, <1>6 DEF UpdateProfile, UpdateStoreDetails, UpdateBankDetails, UpdateSignature, Profile
<1>7. QED
  BY <1>1, <1>2, <1>3, <1>4, <1>6 DEF ReviewSteps

\* The mark of an address can be set and cleared.
LEMMA MarkTyped ==
    ASSUME NEW a \in Address
    PROVE  [a EXCEPT !.isDefault = TRUE] \in Address /\ [a EXCEPT !.isDefault = FALSE] \in Address
BY DEF Address

LEMMA BookTyped ==
    ASSUME TypeOK, \A q \in Slots : Bound(q), BookSteps
    PROVE  Unspent /\ Kept
<1>1. ASSUME UNCHANGED <<account, seller, sessions, turnedAway>>, Unspent, BookTypes'
      PROVE  Kept
  BY <1>1 DEF TypeOK, Kept, AccountTypes, CodeTypes, EntryTypes, Grows, Unspent, IsSeller, Exists
<1>2. ASSUME OnlyBook
      PROVE  UNCHANGED <<account, seller, sessions, turnedAway>> /\ Unspent
  BY <1>2 DEF OnlyBook, codes, entry, Unspent
<1>3. \A u \in Users : book[u] \in SUBSET Address
  BY DEF TypeOK
<1>4. ASSUME NEW u \in Users, NEW kept \in SUBSET Address, book' = [book EXCEPT ![u] = kept],
             UNCHANGED minted
      PROVE  BookTypes'
  BY <1>4 DEF TypeOK, BookTypes
<1>5. ASSUME NEW r \in Slots, NEW u \in Users, UpdatePickup(r, u)
      PROVE  Unspent /\ Kept
  BY <1>5, SameTables DEF UpdatePickup, OnlySlot, OnlyCodes, codes, entry, Unspent, TypeOK
<1>6. ASSUME NEW r \in Slots, NEW u \in Users, CreateDefaultAddress(r, u)
      PROVE  Unspent /\ Kept
  <2>1. /\ book' = [book EXCEPT ![u] = {[a EXCEPT !.isDefault = FALSE] : a \in book[u]}]
        /\ UNCHANGED minted /\ OnlyBook
    BY <1>6 DEF CreateDefaultAddress
  <2>2. {[a EXCEPT !.isDefault = FALSE] : a \in book[u]} \in SUBSET Address
    BY <1>3, MarkTyped
  <2>3. QED
    BY <1>1, <1>2, <1>4, <2>1, <2>2
<1>7. ASSUME NEW r \in Slots, NEW u \in Users, NEW i \in Ids(u), MakeDefault(r, u, i)
      PROVE  Unspent /\ Kept
  <2>. DEFINE kept == {IF a.id = i THEN a ELSE [a EXCEPT !.isDefault = FALSE] : a \in book[u]}
  <2>1. /\ book' = [book EXCEPT ![u] = kept] /\ UNCHANGED minted /\ OnlyBook
    BY <1>7 DEF MakeDefault
  <2>2. kept \in SUBSET Address
    BY <1>3, MarkTyped
  <2>. HIDE DEF kept
  <2>3. QED
    BY <1>1, <1>2, <1>4, <2>1, <2>2
<1>8. ASSUME NEW u \in Users, NEW i, Marked(u, i) \notin SUBSET Address
      PROVE  FALSE
  BY <1>3, <1>8, MarkTyped DEF Marked
<1>9. ASSUME NEW r \in Slots, SavePickup(r)
      PROVE  Unspent /\ Kept
  <2>1. Of(r) \in Users
    BY <1>9, JobTyped DEF SavePickup, At, Of, TypeOK
  <2>2. OnlyBook
    BY <1>9 DEF SavePickup
  <2>3. BookTypes'
    <3>1. CASE job[r].address = 0
      BY <1>3, <1>9, <2>1, <3>1, InsertTyped DEF SavePickup
    <3>2. CASE job[r].address # 0
      BY <1>4, <1>8, <1>9, <2>1, <3>2 DEF SavePickup
    <3>3. QED
      BY <3>1, <3>2
  <2>4. QED
    BY <1>1, <1>2, <2>2, <2>3
<1>10. ASSUME NEW r \in Slots, SaveBusinessAddress(r)
       PROVE  Unspent /\ Kept
  <2>1. pc[r] = "legacy" /\ job[r].op = "updatePickup"
    BY <1>10 DEF SaveBusinessAddress, At
  <2>2. Of(r) \in Users /\ IsSeller(Of(r))
    BY <2>1, JobTyped DEF Bound, BoundBook, BookAt, TypeOK, Of
  <2>3. seller[Of(r)] \in Seller
    BY <2>2 DEF TypeOK, IsSeller
  <2>4. [seller[Of(r)] EXCEPT !.missing = @ \ {"store"}] \in Seller
    BY <2>3 DEF Seller
  <2>5. QED
    BY <1>10, <2>2, <2>4, WriteTyped DEF SaveBusinessAddress
<1>11. ASSUME NEW r \in Slots, SaveNewDefault(r)
       PROVE  Unspent /\ Kept
  <2>1. Of(r) \in Users
    BY <1>11, JobTyped DEF SaveNewDefault, At, Of, TypeOK
  <2>2. Insert(Of(r), book[Of(r)], "SHIPPING", TRUE) /\ OnlyBook
    BY <1>11 DEF SaveNewDefault
  <2>3. QED
    BY <1>1, <1>2, <1>3, <2>1, <2>2, InsertTyped
<1>12. ASSUME NEW r \in Slots, SaveDefault(r)
       PROVE  Unspent /\ Kept
  <2>1. Of(r) \in Users
    BY <1>12, JobTyped DEF SaveDefault, At, Of, TypeOK
  <2>2. /\ book' = [book EXCEPT ![Of(r)] = Marked(Of(r), job[r].address)]
        /\ UNCHANGED minted /\ OnlyBook
    BY <1>12 DEF SaveDefault
  <2>3. QED
    BY <1>1, <1>2, <1>4, <1>8, <2>1, <2>2
<1>13. ASSUME NEW u \in Users, CreateAddress(u)
       PROVE  Unspent /\ Kept
  BY <1>1, <1>2, <1>3, <1>13, InsertTyped DEF CreateAddress
<1>14. ASSUME NEW u \in Users, NEW i \in Ids(u), DropDefault(u, i)
       PROVE  Unspent /\ Kept
  <2>. DEFINE kept == {IF a.id = i THEN [a EXCEPT !.isDefault = FALSE] ELSE a : a \in book[u]}
  <2>1. /\ book' = [book EXCEPT ![u] = kept] /\ UNCHANGED minted /\ OnlyBook
    BY <1>14 DEF DropDefault
  <2>2. kept \in SUBSET Address
    BY <1>3, MarkTyped
  <2>. HIDE DEF kept
  <2>3. QED
    BY <1>1, <1>2, <1>4, <2>1, <2>2
<1>15. ASSUME NEW u \in Users, NEW i \in Ids(u), DeleteAddress(u, i)
       PROVE  Unspent /\ Kept
  <2>1. /\ book' = [book EXCEPT ![u] = {a \in book[u] : a.id # i}] /\ UNCHANGED minted /\ OnlyBook
    BY <1>15 DEF DeleteAddress
  <2>2. {a \in book[u] : a.id # i} \in SUBSET Address
    BY <1>3
  <2>3. QED
    BY <1>1, <1>2, <1>4, <2>1, <2>2
<1>16. QED
  BY <1>5, <1>6, <1>7, <1>9, <1>10, <1>11, <1>12, <1>13, <1>14, <1>15 DEF BookSteps

LEMMA BoundClosed ==
    ASSUME NEW r \in Slots, pc'[r] = "idle"
    PROVE  Bound(r)'
BY DEF Bound, BoundCode, BoundRegister, BoundReview, BoundBook, At, ReviewAt, BookAt

\* Nobody else's locals change.
LEMMA BoundOthers ==
    ASSUME TypeOK, CodeTypes', Grows, \A q \in Slots : Bound(q), NEW r \in Slots, Others(r), Bound(r)'
    PROVE  \A q \in Slots : Bound(q)'
BY BoundLasts DEF Others

LEMMA BoundQuiet ==
    ASSUME TypeOK, CodeTypes', Grows, \A q \in Slots : Bound(q), UNCHANGED slot
    PROVE  \A q \in Slots : Bound(q)'
BY BoundLasts DEF slot

LEMMA BoundAfterClose ==
    ASSUME TypeOK, CodeTypes', Grows, \A q \in Slots : Bound(q), NEW r \in Slots, Close(r)
    PROVE  \A q \in Slots : Bound(q)'
BY BoundClosed, BoundOthers, CloseStep

LEMMA CodeBound ==
    ASSUME TypeOK, \A q \in Slots : Bound(q), CodeSteps, CodeTypes', Grows
    PROVE  \A q \in Slots : Bound(q)'
<1>1. ASSUME NEW k \in Keys, SendCode(k) \/ CodeExpires(k)
      PROVE  \A q \in Slots : Bound(q)'
  BY <1>1, BoundQuiet DEF SendCode, CodeExpires, AtOnce
<1>2. ASSUME NEW r \in Slots, NEW k \in Keys, NEW c \in 1..sent, VerifyOtp(r, k, c)
      PROVE  \A q \in Slots : Bound(q)'
  <2>. DEFINE locals == [op |-> "verify", key |-> k, code |-> c]
  <2>1. Begin(r, "drop", locals) /\ locals \in Jobs /\ "drop" \in Steps
    BY <1>2 DEF VerifyOtp, Jobs, Steps
  <2>2. Others(r) /\ pc'[r] = "drop" /\ job'[r] = locals
    BY <2>1, BeginStep
  <2>3. sent' = sent
    BY <1>2 DEF VerifyOtp, OnlySlot, codes
  <2>4. Bound(r)'
    BY <2>2, <2>3 DEF Bound, BoundCode, BoundRegister, BoundReview, BoundBook, At, ReviewAt, BookAt
  <2>5. QED
    BY <2>2, <2>4, BoundOthers
<1>3. ASSUME NEW r \in Slots, NEW u \in Users, NEW c \in 1..sent, NEW w \in Passwords,
             ResetPassword(r, u, c, w)
      PROVE  \A q \in Slots : Bound(q)'
  <2>. DEFINE locals == [op |-> "reset", key |-> <<account[u].phone, "reset">>, user |-> u,
                         password |-> w]
  <2>1. account[u].phone \in Phones /\ Exists(u)
    BY <1>3 DEF ResetPassword, TypeOK, Exists, Account
  <2>2. Begin(r, "password", locals) /\ locals \in Jobs /\ "password" \in Steps
    BY <1>3, <2>1 DEF ResetPassword, Jobs, Keys, Steps
  <2>3. Others(r) /\ pc'[r] = "password" /\ job'[r].op = "reset" /\ Of(r)' = u
    BY <2>2, BeginStep DEF Of
  <2>4. Exists(u)'
    BY <2>1 DEF Grows
  <2>5. Bound(r)'
    BY <2>3, <2>4 DEF Bound, BoundCode, BoundRegister, BoundReview, BoundBook, At, ReviewAt, BookAt
  <2>6. QED
    BY <2>3, <2>5, BoundOthers
<1>4. ASSUME NEW r \in Slots, DropCode(r)
      PROVE  \A q \in Slots : Bound(q)'
  <2>1. At(r, "verify", "drop") /\ Goto(r, "signIn") /\ "signIn" \in Steps
    BY <1>4 DEF DropCode, Steps
  <2>2. Others(r) /\ pc'[r] = "signIn" /\ job'[r] = job[r]
    BY <2>1, GotoStep DEF At
  <2>3. sent' = sent /\ job[r].code \in 1..sent
    BY <1>4, <2>1 DEF DropCode, Bound, BoundCode
  <2>4. Bound(r)'
    BY <2>1, <2>2, <2>3 DEF Bound, BoundCode, BoundRegister, BoundReview, BoundBook, At, ReviewAt, BookAt
  <2>5. QED
    BY <2>2, <2>4, BoundOthers
<1>5. ASSUME NEW r \in Slots, WritePassword(r)
      PROVE  \A q \in Slots : Bound(q)'
  <2>1. At(r, "reset", "password") /\ Goto(r, "forget") /\ "forget" \in Steps
    BY <1>5 DEF WritePassword, Steps
  <2>2. Others(r) /\ pc'[r] = "forget" /\ job'[r] = job[r]
    BY <2>1, GotoStep DEF At
  <2>3. Bound(r)'
    BY <2>1, <2>2 DEF Bound, BoundCode, BoundRegister, BoundReview, BoundBook, At, ReviewAt, BookAt
  <2>4. QED
    BY <2>2, <2>3, BoundOthers
<1>6. ASSUME NEW r \in Slots, SignIn(r) \/ ForgetCode(r)
      PROVE  \A q \in Slots : Bound(q)'
  BY <1>6, BoundAfterClose DEF SignIn, ForgetCode
<1>7. QED
  BY <1>1, <1>2, <1>3, <1>4, <1>5, <1>6 DEF CodeSteps

LEMMA RegistrationBound ==
    ASSUME TypeOK, \A q \in Slots : Bound(q), RegistrationSteps, CodeTypes', Grows
    PROVE  \A q \in Slots : Bound(q)'
<1>1. ASSUME NEW u \in Users, Login(u) \/ SessionExpires(u)
      PROVE  \A q \in Slots : Bound(q)'
  BY <1>1, BoundQuiet DEF Login, SessionExpires, AtOnce
<1>2. ASSUME NEW r \in Slots, NEW kind \in Role, NEW p \in Phones, NEW e \in Emails,
             NEW w \in Passwords, Register(r, kind, p, e, w)
      PROVE  \A q \in Slots : Bound(q)'
  <2>. DEFINE same == {u \in Users : Exists(u) /\ account[u].phone = p}
              of == IF same = {} THEN NoUser ELSE CHOOSE u \in same : TRUE
              roles == IF of = NoUser THEN {} ELSE account[of].roles
  <2>1. of = NoUser \/ (of \in Users /\ Exists(of) /\ account[of].phone = p)
    OBVIOUS
  <2>2. roles \in SUBSET Role
    BY <2>1 DEF TypeOK, Exists, Account
  <2>3. /\ Begin(r, "commit", [op |-> "register", kind |-> kind, phone |-> p, email |-> e,
                               password |-> w, user |-> of, roles |-> roles])
        /\ Registrable(p, e)
    BY <1>2 DEF Register
  <2>. HIDE DEF of, roles
  <2>4. PICK o, known : o = of /\ known = roles
    OBVIOUS
  <2>. DEFINE locals == [op |-> "register", kind |-> kind, phone |-> p, email |-> e,
                         password |-> w, user |-> o, roles |-> known]
  <2>5. locals \in Jobs /\ "commit" \in Steps
    BY <2>1, <2>2, <2>4 DEF Jobs, Steps
  <2>6. Others(r) /\ pc'[r] = "commit" /\ job'[r] = locals
    BY <2>3, <2>4, <2>5, BeginStep
  <2>7. o # NoUser => o \in Users /\ Exists(o) /\ account[o].email = e
    BY <2>1, <2>3, <2>4 DEF Registrable
  <2>8. o # NoUser => Exists(o)' /\ account'[o].email = e
    BY <2>7 DEF Grows
  <2>9. Of(r)' = o /\ job'[r].email = e
    BY <2>6 DEF Of
  <2>10. Bound(r)'
    BY <2>6, <2>8, <2>9 DEF Bound, BoundCode, BoundRegister, BoundReview, BoundBook, At, ReviewAt, BookAt
  <2>11. QED
    BY <2>6, <2>10, BoundOthers
<1>3. ASSUME NEW r \in Slots, CommitRegistration(r)
      PROVE  \A q \in Slots : Bound(q)'
  <2>1. At(r, "register", "commit") /\ pc' = [pc EXCEPT ![r] = "login"]
    BY <1>3 DEF CommitRegistration
  <2>2. PICK u \in Users : CommitUser(r, u) /\ job' = [job EXCEPT ![r].user = u]
    BY <1>3 DEF CommitRegistration
  <2>3. job[r] \in [op : {"register"}, kind : Role, phone : Phones, email : Emails,
          password : Passwords, user : Users \cup {NoUser}, roles : SUBSET Role]
    BY <2>1 DEF TypeOK, Jobs, At
  <2>4. job'[r] = [job[r] EXCEPT !.user = u]
    BY <2>2 DEF TypeOK
  <2>5. Of(r)' = u /\ job'[r].email = job[r].email /\ job'[r].op = "register"
    BY <2>3, <2>4 DEF Of
  <2>6. Others(r) /\ pc'[r] = "login"
    BY <2>1, <2>2 DEF TypeOK, Others
  <2>7. Exists(u)' /\ account'[u].email = job[r].email /\ u # NoUser
    BY <2>1, <2>2, UserCommitted, AccountsAssumption DEF Bound
  <2>8. Bound(r)'
    BY <2>5, <2>6, <2>7 DEF Bound, BoundCode, BoundRegister, BoundReview, BoundBook, At, ReviewAt, BookAt
  <2>9. QED
    BY <2>6, <2>8, BoundOthers
<1>4. ASSUME NEW r \in Slots, LoginRegistered(r)
      PROVE  \A q \in Slots : Bound(q)'
  BY <1>4, BoundAfterClose DEF LoginRegistered
<1>5. QED
  BY <1>1, <1>2, <1>3, <1>4 DEF RegistrationSteps

LEMMA ReviewBound ==
    ASSUME TypeOK, \A q \in Slots : Bound(q), ReviewSteps, CodeTypes', Grows
    PROVE  \A q \in Slots : Bound(q)'
<1>1. ASSUME NEW u \in Users, NEW blank \in BOOLEAN,
             \/ ReregisterSeller(u) \/ UpdateProfile(u) \/ UpdateStoreDetails(u, blank)
             \/ UpdateBankDetails(u, blank) \/ UpdateSignature(u, blank)
      PROVE  \A q \in Slots : Bound(q)'
  BY <1>1, BoundQuiet DEF ReregisterSeller, UpdateProfile, UpdateStoreDetails, UpdateBankDetails,
     UpdateSignature, Fill, AtOnce
<1>2. ASSUME NEW r \in Slots, NEW u \in Users, IsSeller(u), NEW op \in Reviews,
             NEW seen \in Status, NEW at \in ReviewAt,
             Begin(r, at, [op |-> op, user |-> u, seen |-> seen])
      PROVE  \A q \in Slots : Bound(q)'
  <2>1. [op |-> op, user |-> u, seen |-> seen] \in Jobs /\ at \in Steps
    BY DEF Jobs, Reviews, ReviewAt, Steps
  <2>2. Others(r) /\ pc'[r] = at /\ job'[r].op = op /\ Of(r)' = u
    BY <1>2, <2>1, BeginStep DEF Of
  <2>3. IsSeller(u)'
    BY <1>2 DEF Grows
  <2>4. Bound(r)'
    BY <2>2, <2>3
       DEF Bound, BoundCode, BoundRegister, BoundReview, BoundBook, At, ReviewAt, BookAt, Reviews
  <2>5. QED
    BY <2>2, <2>4, BoundOthers
<1>3. ASSUME NEW r \in Slots, NEW u \in Users, NEW op \in {"approve", "reject", "requestChanges"},
             ReviewSeller(r, u, op)
      PROVE  \A q \in Slots : Bound(q)'
  <2>1. IsSeller(u) /\ seller[u].status \in Status
    BY <1>3 DEF ReviewSeller, TypeOK, IsSeller, Seller
  <2>2. op \in Reviews /\ "write" \in ReviewAt
    BY DEF Reviews, ReviewAt
  <2>3. QED
    BY <1>2, <1>3, <2>1, <2>2 DEF ReviewSeller
<1>4. ASSUME NEW r \in Slots, NEW u \in Users, Resubmit(r, u)
      PROVE  \A q \in Slots : Bound(q)'
  <2>1. /\ IsSeller(u) /\ "NEEDS_CHANGES" \in Status /\ "resubmit" \in Reviews
        /\ "pickup" \in ReviewAt
    BY <1>4 DEF Resubmit, OwnsStore, Status, Reviews, ReviewAt
  <2>2. QED
    BY <1>2, <1>4, <2>1 DEF Resubmit
<1>5. ASSUME NEW r \in Slots, FindPickup(r)
      PROVE  \A q \in Slots : Bound(q)'
  <2>1. At(r, "resubmit", "pickup") /\ Goto(r, "write") /\ "write" \in Steps
    BY <1>5 DEF FindPickup, Steps
  <2>2. Others(r) /\ pc'[r] = "write" /\ job'[r] = job[r]
    BY <2>1, GotoStep DEF At
  <2>3. IsSeller(Of(r))' /\ job[r].op = "resubmit"
    <3>1. IsSeller(Of(r)) /\ Of(r) \in Users
      BY <2>1, JobTyped DEF Bound, BoundReview, ReviewAt, At, Of, TypeOK
    <3>2. Of(r)' = Of(r)
      BY <2>2 DEF Of
    <3>3. QED
      BY <2>1, <3>1, <3>2 DEF Grows, At
  <2>4. Bound(r)'
    BY <2>2, <2>3
       DEF Bound, BoundCode, BoundRegister, BoundReview, BoundBook, At, ReviewAt, BookAt, Reviews
  <2>5. QED
    BY <2>2, <2>4, BoundOthers
<1>6. ASSUME NEW r \in Slots,
             WriteApproval(r) \/ WriteRejection(r) \/ WriteChanges(r) \/ WriteResubmission(r)
      PROVE  \A q \in Slots : Bound(q)'
  BY <1>6, BoundAfterClose
     DEF WriteApproval, WriteRejection, WriteChanges, WriteResubmission, WriteSeller
<1>7. QED
  BY <1>1, <1>3, <1>4, <1>5, <1>6 DEF ReviewSteps

LEMMA BookBound ==
    ASSUME TypeOK, \A q \in Slots : Bound(q), BookSteps, CodeTypes', Grows
    PROVE  \A q \in Slots : Bound(q)'
<1>1. ASSUME NEW u \in Users, CreateAddress(u) \/ \E i \in Ids(u) : DropDefault(u, i) \/ DeleteAddress(u, i)
      PROVE  \A q \in Slots : Bound(q)'
  BY <1>1, BoundQuiet DEF CreateAddress, DropDefault, DeleteAddress, AtOnce
<1>2. ASSUME NEW r \in Slots, NEW u \in Users, NEW i \in Nat,
             NEW op \in {"create", "update", "updatePickup"}, op = "updatePickup" => IsSeller(u),
             Begin(r, "save", [op |-> op, user |-> u, address |-> i])
      PROVE  \A q \in Slots : Bound(q)'
  <2>1. [op |-> op, user |-> u, address |-> i] \in Jobs /\ "save" \in Steps
    BY DEF Jobs, Steps
  <2>2. Others(r) /\ pc'[r] = "save" /\ job'[r].op = op /\ Of(r)' = u
    BY <1>2, <2>1, BeginStep DEF Of
  <2>3. op = "updatePickup" => IsSeller(u)'
    BY <1>2 DEF Grows
  <2>4. Bound(r)'
    BY <2>2, <2>3 DEF Bound, BoundCode, BoundRegister, BoundReview, BoundBook, At, ReviewAt, BookAt
  <2>5. QED
    BY <2>2, <2>4, BoundOthers
<1>3. \A u \in Users : \A a \in book[u] : a.id \in Nat
  BY DEF TypeOK, Address
<1>4. ASSUME NEW r \in Slots, NEW u \in Users, UpdatePickup(r, u)
      PROVE  \A q \in Slots : Bound(q)'
  <2>1. Newest(u) \subseteq Nat
    BY <1>3 DEF Newest
  <2>2. IsSeller(u)
    BY <1>4 DEF UpdatePickup, OwnsStore
  <2>3. QED
    BY <1>2, <1>4, <2>1, <2>2 DEF UpdatePickup
<1>5. ASSUME NEW r \in Slots, NEW u \in Users, CreateDefaultAddress(r, u)
      PROVE  \A q \in Slots : Bound(q)'
  BY <1>2, <1>5 DEF CreateDefaultAddress
<1>6. ASSUME NEW r \in Slots, NEW u \in Users, NEW i \in Ids(u), MakeDefault(r, u, i)
      PROVE  \A q \in Slots : Bound(q)'
  <2>1. i \in Nat
    BY <1>3 DEF Ids
  <2>2. QED
    BY <1>2, <1>6, <2>1 DEF MakeDefault
<1>7. ASSUME NEW r \in Slots, SavePickup(r)
      PROVE  \A q \in Slots : Bound(q)'
  <2>1. At(r, "updatePickup", "save") /\ Goto(r, "legacy") /\ "legacy" \in Steps
    BY <1>7 DEF SavePickup, Steps
  <2>2. Others(r) /\ pc'[r] = "legacy" /\ job'[r] = job[r]
    BY <2>1, GotoStep DEF At
  <2>3. IsSeller(Of(r))'
    <3>1. IsSeller(Of(r)) /\ Of(r) \in Users
      BY <2>1, JobTyped DEF Bound, BoundBook, BookAt, At, Of, TypeOK
    <3>2. Of(r)' = Of(r)
      BY <2>2 DEF Of
    <3>3. QED
      BY <3>1, <3>2 DEF Grows
  <2>4. Bound(r)'
    BY <2>1, <2>2, <2>3 DEF Bound, BoundCode, BoundRegister, BoundReview, BoundBook, At, ReviewAt, BookAt
  <2>5. QED
    BY <2>2, <2>4, BoundOthers
<1>8. ASSUME NEW r \in Slots, SaveBusinessAddress(r) \/ SaveNewDefault(r) \/ SaveDefault(r)
      PROVE  \A q \in Slots : Bound(q)'
  BY <1>8, BoundAfterClose DEF SaveBusinessAddress, SaveNewDefault, SaveDefault, WriteSeller
<1>9. QED
  BY <1>1, <1>4, <1>5, <1>6, <1>7, <1>8 DEF BookSteps

LEMMA FailStep ==
    ASSUME TypeOK, \A q \in Slots : Bound(q), NEW r \in Slots, Fail(r)
    PROVE  /\ Unspent /\ Kept /\ UNCHANGED <<account, seller, book, minted, sessions, turnedAway>>
           /\ SlotTypes' /\ Moved({}) /\ \A q \in Slots : Bound(q)'
<1>1. /\ pc[r] # "idle" /\ Close(r) /\ Unspent
      /\ UNCHANGED <<account, seller, book, minted, sessions, turnedAway>>
  BY DEF Fail, OnlySlot, OnlyCodes, codes, entry, Unspent
<1>2. Kept
  BY <1>1, SameTables DEF TypeOK
<1>3. SlotTypes' /\ Moved({})
  BY <1>1, Closes
<1>4. \A q \in Slots : Bound(q)'
  BY <1>1, <1>2, BoundAfterClose DEF Kept
<1>5. QED
  BY <1>1, <1>2, <1>3, <1>4

LEMMA NextTyped ==
    ASSUME TypeOK, \A q \in Slots : Bound(q), Next
    PROVE  /\ serial' = serial /\ Kept /\ SlotTypes'
           /\ \A q \in Slots : Bound(q)'
<1>1. CASE CodeSteps
  BY <1>1, CodeTyped, CodeSlots, CodeBound DEF Kept
<1>2. CASE RegistrationSteps
  BY <1>2, RegistrationTyped, RegistrationSlots, RegistrationBound DEF Kept, Unspent
<1>3. CASE ReviewSteps
  BY <1>3, ReviewTyped, ReviewSlots, ReviewBound DEF Kept, Unspent
<1>4. CASE BookSteps
  BY <1>4, BookTyped, BookSlots, BookBound DEF Kept, Unspent
<1>5. ASSUME NEW r \in Slots, Fail(r)
      PROVE  serial' = serial /\ Kept /\ SlotTypes' /\ \A q \in Slots : Bound(q)'
  BY <1>5, FailStep DEF Unspent
<1>6. QED
  BY <1>1, <1>2, <1>3, <1>4, <1>5 DEF Next

Typed == TypeOK /\ \A r \in Slots : Bound(r)

LEMMA TypedInit == Init => Typed
<1>. SUFFICES ASSUME Init PROVE Typed
  OBVIOUS
<1>. USE AccountsAssumption
<1>1. TypeOK
  BY DEF Init, TypeOK, IsSeller, Exists, NoSeller, Free
<1>2. \A r \in Slots : pc[r] = "idle"
  BY DEF Init
<1>3. \A r \in Slots : Bound(r)
  BY <1>2 DEF Bound, BoundCode, BoundRegister, BoundReview, BoundBook, At, ReviewAt, BookAt
<1>4. QED
  BY <1>1, <1>3 DEF Typed

LEMMA TypedNext == Typed /\ [Next]_vars => Typed'
<1>. SUFFICES ASSUME Typed, [Next]_vars PROVE Typed'
  OBVIOUS
<1>1. CASE Next
  <2>1. /\ serial' \in BOOLEAN /\ AccountTypes' /\ BookTypes' /\ CodeTypes' /\ EntryTypes'
        /\ SlotTypes' /\ \A q \in Slots : Bound(q)'
    BY <1>1, NextTyped DEF Typed, Kept, TypeOK
  <2>2. TypeOK'
    BY <2>1 DEF TypeOK, AccountTypes, BookTypes, CodeTypes, EntryTypes, SlotTypes
  <2>3. QED
    BY <2>1, <2>2 DEF Typed
<1>2. CASE UNCHANGED vars
  <2>1. UNCHANGED <<account, seller, sent, pc, job>>
    BY <1>2 DEF vars
  <2>2. TypeOK'
    BY <1>2 DEF Typed, TypeOK, vars, IsSeller, Exists
  <2>3. \A r \in Slots : Bound(r)'
    BY <2>1 DEF Typed, Bound, BoundCode, BoundRegister, BoundReview, BoundBook, At, Of, Exists,
       IsSeller
  <2>4. QED
    BY <2>2, <2>3 DEF Typed
<1>3. QED
  BY <1>1, <1>2

LEMMA AlwaysTyped == Spec => []Typed
BY TypedInit, TypedNext, PTL DEF Spec

\* Accounts, shops, addresses, codes and open handlers stay what their types say, however
\* the requests of AuthService, SellersService and BuyersService overlap and break off;
\* every shop has an account.
THEOREM AccountsTyped == Spec => []TypeOK
BY AlwaysTyped, PTL DEF Typed

-----------------------------------------------------------------------------
(***************************************************************************)
(* What a step does to a seller's row.                                     *)
(***************************************************************************)
Applied(u) ==
    /\ seller'[u].status = "PENDING" /\ seller'[u].reason = "none"
    /\ "categories" \notin seller'[u].missing
    /\ seller'[u].asked = IF IsSeller(u) THEN seller[u].asked ELSE "NONE"

Cleared(u) ==
    /\ IsSeller(u)
    /\ seller'[u].status = "PENDING" /\ seller'[u].reason = "reset"
    /\ seller'[u].asked = seller[u].asked

Filled(u) ==
    /\ IsSeller(u)
    /\ seller'[u].status = seller[u].status /\ seller'[u].reason = seller[u].reason
    /\ seller'[u].asked = seller[u].asked
    /\ seller'[u].missing \subseteq seller[u].missing \cup {"store", "bank", "signature"}

Decided(r) ==
    LET u == Of(r)
    IN  /\ pc[r] = "write" /\ IsSeller(u)
        /\ seller'[u].missing = seller[u].missing
        /\ \/ /\ job[r].op = "approve"
              /\ seller'[u].status = "VERIFIED" /\ seller'[u].reason = "none"
              /\ seller'[u].asked = seller[u].asked
           \/ /\ job[r].op = "reject"
              /\ seller'[u].status = "REJECTED" /\ seller'[u].reason = "rejected"
              /\ seller'[u].asked = seller[u].asked
           \/ /\ job[r].op = "requestChanges"
              /\ seller'[u].status = "NEEDS_CHANGES" /\ seller'[u].reason = seller[u].reason
              /\ seller'[u].asked = job[r].seen /\ job[r].seen \in Status
           \/ /\ job[r].op = "resubmit"
              /\ seller'[u].status = "PENDING" /\ seller'[u].reason = "none"
              /\ seller'[u].asked = seller[u].asked

SellerMove(u) ==
    /\ \A v \in Users \ {u} : seller'[v] = seller[v]
    /\ IsSeller(u)'
    /\ \/ Applied(u) \/ Cleared(u) \/ Filled(u)
       \/ \E r \in Slots : Of(r) = u /\ Decided(r)

LEMMA RowReplaced ==
    ASSUME TypeOK, NEW u \in Users, NEW s \in Seller, seller' = [seller EXCEPT ![u] = s]
    PROVE  seller'[u] = s /\ IsSeller(u)' /\ \A v \in Users \ {u} : seller'[v] = seller[v]
<1>1. s # NoSeller
  BY DEF Seller, NoSeller
<1>2. QED
  BY <1>1 DEF TypeOK, IsSeller

LEMMA ReviewMoves ==
    ASSUME Typed, ReviewSteps
    PROVE  seller' = seller \/ \E u \in Users : SellerMove(u) /\ IsSeller(u)
<1>. USE DEF Typed
<1>0. ASSUME NEW r \in Slots, FindPickup(r)
      PROVE  seller' = seller
  BY <1>0 DEF FindPickup, OnlySlot, OnlyCodes
<1>1. ASSUME NEW r \in Slots, NEW u \in Users,
             \/ (\E op \in {"approve", "reject", "requestChanges"} : ReviewSeller(r, u, op))
             \/ Resubmit(r, u)
      PROVE  seller' = seller
  BY <1>1 DEF ReviewSeller, Resubmit, OnlySlot, OnlyCodes
<1>2. ASSUME NEW r \in Slots,
             WriteApproval(r) \/ WriteRejection(r) \/ WriteChanges(r) \/ WriteResubmission(r)
      PROVE  \E u \in Users : SellerMove(u) /\ IsSeller(u)
  <2>1. pc[r] = "write" /\ job[r].op \in Reviews
    BY <1>2 DEF WriteApproval, WriteRejection, WriteChanges, WriteResubmission, At, Reviews
  <2>2. PICK u \in Users : Of(r) = u /\ IsSeller(u) /\ job[r].seen \in Status
    BY <2>1, JobTyped DEF Bound, BoundReview, ReviewAt, Reviews, TypeOK, Of
  <2>3. seller[u] \in Seller
    BY <2>2 DEF TypeOK, IsSeller
  <2>4. CASE WriteApproval(r)
    <3>. DEFINE s == [seller[u] EXCEPT !.status = "VERIFIED", !.reason = "none"]
    <3>1. /\ s \in Seller /\ s.status = "VERIFIED" /\ s.reason = "none"
          /\ s.asked = seller[u].asked /\ s.missing = seller[u].missing
      BY <2>3 DEF Seller, Status, Reason
    <3>2. seller' = [seller EXCEPT ![u] = s] /\ job[r].op = "approve"
      BY <2>2, <2>4 DEF WriteApproval, WriteSeller, At
    <3>. HIDE DEF s
    <3>3. QED
      BY <2>1, <2>2, <3>1, <3>2, RowReplaced DEF SellerMove, Decided
  <2>5. CASE WriteRejection(r)
    <3>. DEFINE s == [seller[u] EXCEPT !.status = "REJECTED", !.reason = "rejected"]
    <3>1. /\ s \in Seller /\ s.status = "REJECTED" /\ s.reason = "rejected"
          /\ s.asked = seller[u].asked /\ s.missing = seller[u].missing
      BY <2>3 DEF Seller, Status, Reason
    <3>2. seller' = [seller EXCEPT ![u] = s] /\ job[r].op = "reject"
      BY <2>2, <2>5 DEF WriteRejection, WriteSeller, At
    <3>. HIDE DEF s
    <3>3. QED
      BY <2>1, <2>2, <3>1, <3>2, RowReplaced DEF SellerMove, Decided
  <2>6. CASE WriteChanges(r)
    <3>. DEFINE s == [seller[u] EXCEPT !.status = "NEEDS_CHANGES", !.asked = job[r].seen]
    <3>1. /\ s \in Seller /\ s.status = "NEEDS_CHANGES" /\ s.reason = seller[u].reason
          /\ s.asked = job[r].seen /\ s.missing = seller[u].missing
      BY <2>2, <2>3 DEF Seller, Status, Reason
    <3>2. seller' = [seller EXCEPT ![u] = s] /\ job[r].op = "requestChanges"
      BY <2>2, <2>6 DEF WriteChanges, WriteSeller, At
    <3>. HIDE DEF s
    <3>3. QED
      BY <2>1, <2>2, <3>1, <3>2, RowReplaced DEF SellerMove, Decided
  <2>7. CASE WriteResubmission(r)
    <3>. DEFINE s == [seller[u] EXCEPT !.status = "PENDING", !.reason = "none"]
    <3>1. /\ s \in Seller /\ s.status = "PENDING" /\ s.reason = "none"
          /\ s.asked = seller[u].asked /\ s.missing = seller[u].missing
      BY <2>3 DEF Seller, Status, Reason
    <3>2. seller' = [seller EXCEPT ![u] = s] /\ job[r].op = "resubmit"
      BY <2>2, <2>7 DEF WriteResubmission, WriteSeller, At
    <3>. HIDE DEF s
    <3>3. QED
      BY <2>1, <2>2, <3>1, <3>2, RowReplaced DEF SellerMove, Decided
  <2>8. QED
    BY <1>2, <2>4, <2>5, <2>6, <2>7
<1>3. ASSUME NEW u \in Users, ReregisterSeller(u)
      PROVE  SellerMove(u) /\ IsSeller(u)
  <2>. DEFINE s == [seller[u] EXCEPT !.status = "PENDING", !.reason = "reset", !.missing = Profile]
  <2>1. IsSeller(u) /\ seller[u] \in Seller
    BY <1>3 DEF ReregisterSeller, IsSeller, TypeOK
  <2>2. s \in Seller /\ s.status = "PENDING" /\ s.reason = "reset" /\ s.asked = seller[u].asked
    BY <2>1 DEF Seller, Status, Reason
  <2>3. seller' = [seller EXCEPT ![u] = s]
    BY <1>3 DEF ReregisterSeller
  <2>. HIDE DEF s
  <2>4. QED
    BY <2>1, <2>2, <2>3, RowReplaced DEF SellerMove, Cleared
<1>4. ASSUME NEW u \in Users, NEW x \in {"store", "bank", "signature"}, NEW blank \in BOOLEAN,
             Fill(u, x, blank)
      PROVE  SellerMove(u) /\ IsSeller(u)
  <2>. DEFINE s == [seller[u] EXCEPT !.missing = IF blank THEN @ \cup {x} ELSE @ \ {x}]
  <2>1. IsSeller(u) /\ seller[u] \in Seller
    BY <1>4 DEF Fill, OwnsStore, IsSeller, TypeOK
  <2>2. /\ s \in Seller /\ s.status = seller[u].status /\ s.reason = seller[u].reason
        /\ s.asked = seller[u].asked
        /\ s.missing \subseteq seller[u].missing \cup {"store", "bank", "signature"}
    BY <2>1 DEF Seller, Profile
  <2>3. seller' = [seller EXCEPT ![u] = s]
    BY <1>4 DEF Fill
  <2>. HIDE DEF s
  <2>4. QED
    BY <2>1, <2>2, <2>3, RowReplaced DEF SellerMove, Filled
<1>5. ASSUME NEW u \in Users, NEW blank \in BOOLEAN,
             \/ UpdateProfile(u) \/ UpdateStoreDetails(u, blank)
             \/ UpdateBankDetails(u, blank) \/ UpdateSignature(u, blank)
      PROVE  SellerMove(u) /\ IsSeller(u)
  BY <1>4, <1>5 DEF UpdateProfile, UpdateStoreDetails, UpdateBankDetails, UpdateSignature
<1>6. ASSUME NEW u \in Users,
             \/ ReregisterSeller(u)
             \/ UpdateProfile(u)
             \/ \E blank \in BOOLEAN : \/ UpdateStoreDetails(u, blank)
                                     \/ UpdateBankDetails(u, blank)
                                     \/ UpdateSignature(u, blank)
      PROVE  SellerMove(u) /\ IsSeller(u)
  BY <1>3, <1>5, <1>6
<1>7. QED
  BY <1>0, <1>1, <1>2, <1>6 DEF ReviewSteps

LEMMA BookMoves ==
    ASSUME Typed, BookSteps
    PROVE  seller' = seller \/ \E u \in Users : SellerMove(u) /\ IsSeller(u)
<1>. USE DEF Typed
<1>1. ASSUME NEW r \in Slots, SaveBusinessAddress(r)
      PROVE  \E u \in Users : SellerMove(u) /\ IsSeller(u)
  <2>1. pc[r] = "legacy" /\ job[r].op = "updatePickup"
    BY <1>1 DEF SaveBusinessAddress, At
  <2>2. PICK u \in Users : Of(r) = u /\ IsSeller(u)
    BY <2>1, JobTyped DEF Bound, BoundBook, BookAt, TypeOK, Of
  <2>3. seller[u] \in Seller
    BY <2>2 DEF TypeOK, IsSeller
  <2>. DEFINE s == [seller[u] EXCEPT !.missing = @ \ {"store"}]
  <2>4. /\ s \in Seller /\ s.status = seller[u].status /\ s.reason = seller[u].reason
        /\ s.asked = seller[u].asked
        /\ s.missing \subseteq seller[u].missing \cup {"store", "bank", "signature"}
    BY <2>3 DEF Seller
  <2>5. seller' = [seller EXCEPT ![u] = s]
    BY <1>1, <2>2 DEF SaveBusinessAddress, WriteSeller
  <2>. HIDE DEF s
  <2>6. seller'[u] = s /\ IsSeller(u)' /\ \A v \in Users \ {u} : seller'[v] = seller[v]
    BY <2>4, <2>5, RowReplaced
  <2>7. Filled(u)
    BY <2>2, <2>4, <2>6 DEF Filled
  <2>8. QED
    BY <2>2, <2>6, <2>7 DEF SellerMove
<1>2. QED
  BY <1>1 DEF BookSteps, UpdatePickup, CreateDefaultAddress, MakeDefault, SavePickup,
     SaveNewDefault, SaveDefault, CreateAddress, DropDefault, DeleteAddress, OnlyBook,
     OnlySlot, OnlyCodes

LEMMA SellerMoves ==
    ASSUME Typed, [Next]_vars
    PROVE  seller' = seller \/ \E u \in Users : SellerMove(u)
<1>. USE DEF Typed
<1>1. CASE CodeSteps
  BY <1>1, CodeTyped
<1>2. CASE RegistrationSteps
  <2>1. ASSUME NEW u \in Users, Login(u) \/ SessionExpires(u)
        PROVE  seller' = seller
    BY <2>1 DEF Login, SessionExpires, OnlyCodes
  <2>2. ASSUME NEW r \in Slots, NEW kind \in Role, NEW p \in Phones, NEW e \in Emails,
               NEW w \in Passwords, Register(r, kind, p, e, w)
        PROVE  seller' = seller
    BY <2>2 DEF Register, OnlySlot, OnlyCodes
  <2>3. ASSUME NEW r \in Slots, CommitRegistration(r)
        PROVE  seller' = seller \/ \E u \in Users : SellerMove(u)
    <3>1. \/ seller' = seller
          \/ \E u \in Users : CommitSeller(u)
      BY <2>3 DEF CommitRegistration
    <3>2. ASSUME NEW u \in Users, CommitSeller(u)
          PROVE  SellerMove(u)
      BY <3>2, SellerCommitted DEF SellerMove, Applied
    <3>3. QED
      BY <3>1, <3>2
  <2>4. ASSUME NEW r \in Slots, LoginRegistered(r)
        PROVE  seller' = seller
    BY <2>4 DEF LoginRegistered, OnlyCodes
  <2>5. QED
    BY <1>2, <2>1, <2>2, <2>3, <2>4 DEF RegistrationSteps
<1>3. CASE ReviewSteps
  BY <1>3, ReviewMoves
<1>4. CASE BookSteps
  BY <1>4, BookMoves
<1>5. CASE \E r \in Slots : Fail(r)
  BY <1>5 DEF Fail, OnlySlot, OnlyCodes
<1>6. CASE UNCHANGED vars
  BY <1>6 DEF vars
<1>7. QED
  BY <1>1, <1>2, <1>3, <1>4, <1>5, <1>6 DEF Next

LEMMA ReasonsKept == Typed /\ ReasonMatchesStatus /\ [Next]_vars => ReasonMatchesStatus'
<1>. SUFFICES ASSUME Typed, ReasonMatchesStatus, [Next]_vars PROVE ReasonMatchesStatus'
  OBVIOUS
<1>1. CASE seller' = seller
  BY <1>1 DEF ReasonMatchesStatus, IsSeller
<1>2. ASSUME NEW u \in Users, SellerMove(u)
      PROVE  ReasonMatchesStatus'
  <2>1. ASSUME NEW v \in Users \ {u}, IsSeller(v)'
        PROVE  /\ seller'[v].status = "REJECTED" => seller'[v].reason = "rejected"
               /\ seller'[v].status = "VERIFIED" => seller'[v].reason = "none"
               /\ seller'[v].status = "NEEDS_CHANGES" => seller'[v].asked # "NONE"
    BY <1>2, <2>1 DEF SellerMove, ReasonMatchesStatus, IsSeller
  <2>2. /\ seller'[u].status = "REJECTED" => seller'[u].reason = "rejected"
        /\ seller'[u].status = "VERIFIED" => seller'[u].reason = "none"
        /\ seller'[u].status = "NEEDS_CHANGES" => seller'[u].asked # "NONE"
    BY <1>2 DEF SellerMove, ReasonMatchesStatus, Applied, Cleared, Filled, Decided, Status
  <2>3. QED
    BY <2>1, <2>2 DEF ReasonMatchesStatus
<1>3. QED
  BY <1>1, <1>2, SellerMoves

-----------------------------------------------------------------------------
(***************************************************************************)
(* What holds as long as handlers do not overlap.  Each group of handlers  *)
(* has an invariant of its own, which says what the handlers of that group *)
(* know between their awaits; the steps of another group keep it, as the   *)
(* one open handler is then not of this group.                             *)
(***************************************************************************)
\* A code that was checked is still unused, and found under its own key only.
KnowsCode(r) ==
    /\ At(r, "verify", "drop") =>
          /\ accepted[job[r].code] = 0
          /\ otp[job[r].key] \in {0, job[r].code}
          /\ \A k \in Keys : otp[k] = job[r].code => k = job[r].key
    /\ At(r, "verify", "signIn") =>
          /\ accepted[job[r].code] = 0
          /\ \A k \in Keys : otp[k] # job[r].code
    /\ At(r, "reset", "forget") => fresh[job[r].key] = 0

CodesKept ==
    /\ \A k \in Keys : otp[k] <= sent /\ (fresh[k] # 0 => otp[k] = fresh[k])
    /\ \A j, k \in Keys : otp[j] = otp[k] /\ otp[k] # 0 => j = k
    /\ \A c \in 1..MaxCodes : accepted[c] <= 1 /\ (c > sent => accepted[c] = 0)
    /\ \A k \in Keys : otp[k] # 0 => accepted[otp[k]] = 0
    /\ \A r \in Slots : KnowsCode(r)

\* The roles read are those of the row, and the password written is the row's.
KnowsAccount(r) ==
    /\ At(r, "register", "commit") /\ Of(r) # NoUser => job[r].roles = account[Of(r)].roles
    /\ At(r, "register", "login") => account[Of(r)].password = job[r].password

Roles(u) ==
    /\ Exists(u) /\ account[u].buyer => "BUYER" \in account[u].roles
    /\ IsSeller(u) => "SELLER" \in account[u].roles

TurnedAwayFor(u) == \E v \in Users \ {u} :
    Exists(v) /\ Mailbox[account[v].email] = Mailbox[account[u].email]

AccountsKept ==
    /\ \A u \in Users : Roles(u)
    /\ \A u \in turnedAway : Exists(u) /\ TurnedAwayFor(u)
    /\ \A r \in Slots : KnowsAccount(r)

\* The status a decision was made on is still the seller's.
KnowsSeller(r) ==
    pc[r] \in ReviewAt =>
        /\ job[r].op # "resubmit" =>
              seller[Of(r)].status = job[r].seen /\ job[r].seen \in MayDecide(job[r].op)
        /\ job[r].op = "resubmit" =>
              seller[Of(r)].status = "NEEDS_CHANGES" /\ seller[Of(r)].missing = {}

Told(u) ==
    IsSeller(u) /\ seller[u].status = "PENDING" /\ "categories" \in seller[u].missing
        => seller[u].reason = "reset"

SellersKept == (\A u \in Users : Told(u)) /\ \A r \in Slots : KnowsSeller(r)

\* The other addresses are cleared, and the pickup address read is one.
KnowsBook(r) ==
    /\ At(r, "create", "save") => \A a \in book[Of(r)] : ~a.isDefault
    /\ At(r, "update", "save") => \A a \in book[Of(r)] : a.isDefault => a.id = job[r].address
    /\ At(r, "updatePickup", "save") /\ job[r].address # 0 =>
          \A a \in book[Of(r)] : a.id = job[r].address => a.type = "PICKUP"

Numbered(B, n) == \A a, b \in B : a.id <= n /\ (a.id = b.id => a = b)

OneMark(B) == \A a, b \in B :
    a.type = "SHIPPING" /\ b.type = "SHIPPING" /\ a.isDefault /\ b.isDefault => a = b

BookKept ==
    /\ \A u \in Users : Numbered(book[u], minted) /\ OneMark(book[u])
    /\ \A r \in Slots : KnowsBook(r)

SerialKept == serial => Alone /\ CodesKept /\ AccountsKept /\ SellersKept /\ BookKept

\* The groups' steps do not touch one another's slots.
LEMMA StepSets ==
    /\ CodeAt \cap (RegisterAt \cup ReviewAt \cup BookAt) = {}
    /\ RegisterAt \cap (ReviewAt \cup BookAt) = {}
    /\ ReviewAt \cap BookAt = {}
    /\ "idle" \notin CodeAt \cup RegisterAt \cup ReviewAt \cup BookAt
BY DEF CodeAt, RegisterAt, ReviewAt, BookAt

LEMMA CodesFrame ==
    ASSUME CodesKept, UNCHANGED <<otp, fresh, sent, accepted>>,
           NEW steps, Moved(steps), steps \cap CodeAt = {}
    PROVE  CodesKept'
<1>1. ASSUME NEW r \in Slots PROVE KnowsCode(r)'
  <2>1. CASE pc'[r] \in CodeAt
    <3>1. pc'[r] = pc[r] /\ job'[r] = job[r]
      BY <2>1, MovedFrame, StepSets
    <3>2. QED
      BY <3>1 DEF CodesKept, KnowsCode, At
  <2>2. CASE pc'[r] \notin CodeAt
    BY <2>2 DEF KnowsCode, At, CodeAt
  <2>3. QED
    BY <2>1, <2>2
<1>2. QED
  BY <1>1 DEF CodesKept

LEMMA AccountsFrame ==
    ASSUME Typed, AccountsKept, UNCHANGED <<account, turnedAway>>,
           \A u \in Users : IsSeller(u)' => IsSeller(u),
           NEW steps, Moved(steps), steps \cap RegisterAt = {}
    PROVE  AccountsKept'
<1>1. ASSUME NEW r \in Slots PROVE KnowsAccount(r)'
  <2>1. CASE pc'[r] \in RegisterAt
    <3>1. pc'[r] = pc[r] /\ job'[r] = job[r]
      BY <2>1, MovedFrame, StepSets
    <3>2. QED
      BY <3>1 DEF AccountsKept, KnowsAccount, At, Of
  <2>2. CASE pc'[r] \notin RegisterAt
    BY <2>2 DEF KnowsAccount, At, RegisterAt
  <2>3. QED
    BY <2>1, <2>2
<1>2. \A u \in Users : Roles(u)'
  BY DEF AccountsKept, Roles, Exists
<1>3. \A u \in turnedAway' : Exists(u)' /\ TurnedAwayFor(u)'
  BY DEF AccountsKept, TurnedAwayFor, Exists
<1>4. QED
  BY <1>1, <1>2, <1>3 DEF AccountsKept

LEMMA SellersFrame ==
    ASSUME SellersKept, UNCHANGED seller, NEW steps, Moved(steps), steps \cap ReviewAt = {}
    PROVE  SellersKept'
<1>1. ASSUME NEW r \in Slots PROVE KnowsSeller(r)'
  <2>1. CASE pc'[r] \in ReviewAt
    <3>1. pc'[r] = pc[r] /\ job'[r] = job[r]
      BY <2>1, MovedFrame, StepSets
    <3>2. QED
      BY <3>1 DEF SellersKept, KnowsSeller, Of
  <2>2. CASE pc'[r] \notin ReviewAt
    BY <2>2 DEF KnowsSeller
  <2>3. QED
    BY <2>1, <2>2
<1>2. QED
  BY <1>1 DEF SellersKept, Told, IsSeller

LEMMA BookFrame ==
    ASSUME BookKept, UNCHANGED <<book, minted>>, NEW steps, Moved(steps), steps \cap BookAt = {}
    PROVE  BookKept'
<1>1. ASSUME NEW r \in Slots PROVE KnowsBook(r)'
  <2>1. CASE pc'[r] \in BookAt
    <3>1. pc'[r] = pc[r] /\ job'[r] = job[r]
      BY <2>1, MovedFrame, StepSets
    <3>2. QED
      BY <3>1 DEF BookKept, KnowsBook, At, Of
  <2>2. CASE pc'[r] \notin BookAt
    BY <2>2 DEF KnowsBook, At, BookAt
  <2>3. QED
    BY <2>1, <2>2
<1>2. QED
  BY <1>1 DEF BookKept

\* While the one open handler is at a step of one group, nothing is known of the others.
LEMMA ElsewhereIdle ==
    ASSUME serial, Alone', NEW r \in Slots, pc'[r] # "idle",
           NEW q \in Slots, pc'[q] # "idle"
    PROVE  q = r
BY DEF Alone

\* Nobody else has a handler open.
LEMMA OnlyActor ==
    ASSUME serial, Alone, NEW r \in Slots, Others(r), pc[r] # "idle" \/ Admitted
    PROVE  \A q \in Slots \ {r} : pc'[q] = "idle"
BY DEF Alone, Others, Admitted

LEMMA CodesAlone ==
    ASSUME NEW r \in Slots, KnowsCode(r)', \A q \in Slots \ {r} : pc'[q] = "idle"
    PROVE  \A q \in Slots : KnowsCode(q)'
BY DEF KnowsCode, At

CodeTables ==
    /\ \A k \in Keys : otp[k] <= sent /\ (fresh[k] # 0 => otp[k] = fresh[k])
    /\ \A j, k \in Keys : otp[j] = otp[k] /\ otp[k] # 0 => j = k
    /\ \A c \in 1..MaxCodes : accepted[c] <= 1 /\ (c > sent => accepted[c] = 0)
    /\ \A k \in Keys : otp[k] # 0 => accepted[otp[k]] = 0

LEMMA CodesSplit == CodesKept <=> CodeTables /\ \A r \in Slots : KnowsCode(r)
BY DEF CodesKept, CodeTables

\* A code leaves Redis.
LEMMA CodeCleared ==
    ASSUME CodeTypes, CodeTables, NEW k \in Keys, otp' = [otp EXCEPT ![k] = 0],
           fresh' \in {[fresh EXCEPT ![k] = 0], fresh}, fresh'[k] = 0, UNCHANGED <<sent, accepted>>
    PROVE  CodeTables'
<1>1. otp'[k] = 0 /\ \A j \in Keys \ {k} : otp'[j] = otp[j]
  BY DEF CodeTypes
<1>2. \A j \in Keys \ {k} : fresh'[j] = fresh[j]
  BY DEF CodeTypes
<1>3. sent \in Nat /\ \A j \in Keys : otp[j] \in Nat
  BY AccountsAssumption DEF CodeTypes
<1>4. ASSUME NEW j \in Keys
      PROVE  /\ otp'[j] <= sent' /\ (fresh'[j] # 0 => otp'[j] = fresh'[j])
             /\ otp'[j] # 0 => otp'[j] = otp[j]
  BY <1>1, <1>2, <1>3 DEF CodeTables
<1>5. \A j \in Keys : otp'[j] # 0 => accepted'[otp'[j]] = 0
  BY <1>4 DEF CodeTables
<1>6. \A i, j \in Keys : otp'[i] = otp'[j] /\ otp'[j] # 0 => i = j
  BY <1>4 DEF CodeTables
<1>7. QED
  BY <1>4, <1>5, <1>6 DEF CodeTables

LEMMA CodesSerial ==
    ASSUME serial, Typed, Alone, CodesKept, CodeSteps
    PROVE  CodesKept'
<1>. USE AccountsAssumption DEF Typed
<1>0. CodeTypes /\ CodeTables /\ \A r \in Slots : KnowsCode(r)
  BY TypeParts, CodesSplit
<1>1. ASSUME NEW k \in Keys, SendCode(k)
      PROVE  CodesKept'
  <2>1. /\ otp' = [otp EXCEPT ![k] = sent + 1] /\ fresh' = [fresh EXCEPT ![k] = sent + 1]
        /\ sent' = sent + 1 /\ sent + 1 \in 1..MaxCodes /\ accepted' = accepted
    BY <1>0, <1>1 DEF SendCode, CodeTypes
  <2>2. /\ otp'[k] = sent + 1 /\ fresh'[k] = sent + 1 /\ sent \in Nat
        /\ \A j \in Keys \ {k} : otp'[j] = otp[j] /\ fresh'[j] = fresh[j]
        /\ \A j \in Keys : otp[j] \in Nat /\ otp[j] <= sent
    BY <1>0, <2>1 DEF CodeTypes, CodeTables
  <2>3. \A j \in Keys : otp'[j] <= sent' /\ (fresh'[j] # 0 => otp'[j] = fresh'[j])
    BY <1>0, <2>1, <2>2 DEF CodeTables
  <2>4. \A i, j \in Keys : otp'[i] = otp'[j] /\ otp'[j] # 0 => i = j
    <3>1. \A j \in Keys \ {k} : otp'[j] # sent + 1
      BY <2>2
    <3>2. QED
      BY <1>0, <2>2, <3>1 DEF CodeTables
  <2>5. \A c \in 1..MaxCodes : accepted'[c] <= 1 /\ (c > sent' => accepted'[c] = 0)
    BY <1>0, <2>1, <2>2 DEF CodeTables
  <2>6. \A j \in Keys : otp'[j] # 0 => accepted'[otp'[j]] = 0
    BY <1>0, <2>1, <2>2 DEF CodeTables
  <2>7. \A r \in Slots : pc'[r] = "idle"
    BY <1>1 DEF SendCode, AtOnce, Admitted, slot
  <2>8. \A r \in Slots : KnowsCode(r)'
    BY <2>7 DEF KnowsCode, At
  <2>9. QED
    BY <2>3, <2>4, <2>5, <2>6, <2>8 DEF CodesKept
<1>2. ASSUME NEW k \in Keys, CodeExpires(k)
      PROVE  CodesKept'
  <2>1. /\ otp' = [otp EXCEPT ![k] = 0] /\ fresh' = [fresh EXCEPT ![k] = 0]
        /\ UNCHANGED <<sent, accepted, pc, job>>
    BY <1>2 DEF CodeExpires, slot
  <2>2. /\ otp'[k] = 0 /\ fresh'[k] = 0
        /\ \A j \in Keys \ {k} : otp'[j] = otp[j] /\ fresh'[j] = fresh[j]
    BY <1>0, <2>1 DEF CodeTypes
  <2>3. CodeTables'
    BY <1>0, <2>1, <2>2, CodeCleared
  <2>4. ASSUME NEW r \in Slots PROVE KnowsCode(r)'
    <3>1. At(r, "verify", "drop") \/ At(r, "verify", "signIn") =>
             job[r].key \in Keys /\ job[r].code \in 1..sent
      BY JobTyped DEF At, TypeOK, Bound, BoundCode
    <3>2. At(r, "reset", "forget") => job[r].key \in Keys
      BY JobTyped DEF At, TypeOK
    <3>3. KnowsCode(r)
      BY <1>0
    <3>4. 0 \notin 1..sent
      BY <1>0 DEF CodeTypes
    <3>5. CASE At(r, "verify", "drop")
      BY <2>1, <2>2, <3>1, <3>3, <3>4, <3>5 DEF KnowsCode, At
    <3>6. CASE At(r, "verify", "signIn")
      BY <2>1, <2>2, <3>1, <3>3, <3>4, <3>6 DEF KnowsCode, At
    <3>7. CASE At(r, "reset", "forget")
      BY <2>1, <2>2, <3>2, <3>3, <3>7 DEF KnowsCode, At
    <3>8. QED
      BY <2>1, <3>5, <3>6, <3>7 DEF KnowsCode, At
  <2>5. QED
    BY <2>3, <2>4 DEF CodesKept, CodeTables
<1>3. ASSUME NEW r \in Slots, NEW k \in Keys, NEW c \in 1..sent, VerifyOtp(r, k, c)
      PROVE  CodesKept'
  <2>. DEFINE locals == [op |-> "verify", key |-> k, code |-> c]
  <2>1. Begin(r, "drop", locals) /\ locals \in Jobs /\ "drop" \in Steps
    BY <1>3 DEF VerifyOtp, Jobs, Steps
  <2>2. Others(r) /\ Admitted /\ pc'[r] = "drop" /\ job'[r] = locals
    BY <2>1, BeginStep
  <2>3. otp[k] = c /\ UNCHANGED <<otp, fresh, sent, accepted>> /\ c # 0
    BY <1>0, <1>3 DEF VerifyOtp, OnlySlot, codes, CodeTypes
  <2>4. KnowsCode(r)'
    BY <1>0, <2>2, <2>3 DEF KnowsCode, At, CodeTables
  <2>5. \A q \in Slots : KnowsCode(q)'
    BY <2>2, <2>4, OnlyActor, CodesAlone
  <2>6. QED
    BY <1>0, <2>3, <2>5 DEF CodesKept, CodeTables
<1>4. ASSUME NEW r \in Slots, NEW u \in Users, NEW c \in 1..sent, NEW w \in Passwords,
             ResetPassword(r, u, c, w)
      PROVE  CodesKept'
  <2>. DEFINE locals == [op |-> "reset", key |-> <<account[u].phone, "reset">>, user |-> u,
                         password |-> w]
  <2>1. account[u].phone \in Phones
    BY <1>4 DEF ResetPassword, TypeOK, Exists, Account
  <2>2. Begin(r, "password", locals) /\ locals \in Jobs /\ "password" \in Steps
    BY <1>4, <2>1 DEF ResetPassword, Jobs, Keys, Steps
  <2>3. Others(r) /\ Admitted /\ pc'[r] = "password"
    BY <2>2, BeginStep
  <2>4. UNCHANGED <<otp, fresh, sent, accepted>>
    BY <1>4 DEF ResetPassword, OnlySlot, codes
  <2>5. KnowsCode(r)'
    BY <2>3 DEF KnowsCode, At
  <2>6. \A q \in Slots : KnowsCode(q)'
    BY <2>3, <2>5, OnlyActor, CodesAlone
  <2>7. QED
    BY <1>0, <2>4, <2>6 DEF CodesKept, CodeTables
<1>5. ASSUME NEW r \in Slots, DropCode(r)
      PROVE  CodesKept'
  <2>. DEFINE k == job[r].key
              c == job[r].code
  <2>1. At(r, "verify", "drop") /\ Goto(r, "signIn") /\ "signIn" \in Steps
    BY <1>5 DEF DropCode, Steps
  <2>2. Others(r) /\ pc[r] # "idle" /\ pc'[r] = "signIn" /\ job'[r] = job[r]
    BY <2>1, GotoStep DEF At
  <2>3. /\ otp' = [otp EXCEPT ![k] = 0] /\ UNCHANGED <<sent, accepted>>
        /\ fresh' = [fresh EXCEPT ![k] = IF @ = c THEN 0 ELSE @]
    BY <1>5 DEF DropCode
  <2>4. k \in Keys /\ c \in 1..sent /\ c # 0
    BY <1>0, <2>1, JobTyped DEF TypeOK, At, Bound, BoundCode, CodeTypes
  <2>5. accepted[c] = 0 /\ otp[k] \in {0, c} /\ \A j \in Keys : otp[j] = c => j = k
    BY <1>0, <2>1 DEF KnowsCode
  <2>6. fresh'[k] = 0 /\ fresh' \in {[fresh EXCEPT ![k] = 0], fresh}
    <3>1. fresh[k] \in {0, c}
      BY <1>0, <2>4, <2>5 DEF CodeTables
    <3>2. CASE fresh[k] = c
      BY <1>0, <2>3, <2>4, <3>2 DEF CodeTypes
    <3>3. CASE fresh[k] # c
      BY <1>0, <2>3, <2>4, <3>1, <3>3 DEF CodeTypes
    <3>4. QED
      BY <3>2, <3>3
  <2>7. CodeTables'
    BY <1>0, <2>3, <2>4, <2>6, CodeCleared
  <2>8. otp'[k] = 0 /\ \A j \in Keys \ {k} : otp'[j] = otp[j]
    BY <1>0, <2>3, <2>4 DEF CodeTypes
  <2>9. \A j \in Keys : otp'[j] # c
    BY <2>4, <2>5, <2>8
  <2>10. KnowsCode(r)'
    BY <2>2, <2>3, <2>5, <2>9 DEF KnowsCode, At
  <2>11. \A q \in Slots : KnowsCode(q)'
    BY <2>2, <2>10, OnlyActor, CodesAlone
  <2>12. QED
    BY <2>7, <2>11 DEF CodesKept, CodeTables
<1>6. ASSUME NEW r \in Slots, SignIn(r)
      PROVE  CodesKept'
  <2>. DEFINE c == job[r].code
  <2>1. At(r, "verify", "signIn") /\ Close(r) /\ pc[r] # "idle"
    BY <1>6 DEF SignIn, At
  <2>2. Others(r) /\ pc'[r] = "idle"
    BY <2>1, CloseStep
  <2>3. accepted' = [accepted EXCEPT ![c] = @ + 1] /\ UNCHANGED <<otp, fresh, sent>>
    BY <1>6 DEF SignIn
  <2>4. c \in 1..sent /\ c \in 1..MaxCodes /\ sent \in Nat
    BY <1>0, <2>1 DEF Bound, BoundCode, CodeTypes
  <2>5. accepted[c] = 0 /\ \A j \in Keys : otp[j] # c
    BY <1>0, <2>1 DEF KnowsCode
  <2>6. accepted'[c] = 1 /\ \A d \in (1..MaxCodes) \ {c} : accepted'[d] = accepted[d]
    BY <1>0, <2>3, <2>4, <2>5 DEF CodeTypes
  <2>7. \A d \in 1..MaxCodes : accepted'[d] <= 1 /\ (d > sent' => accepted'[d] = 0)
    BY <1>0, <2>3, <2>4, <2>6 DEF CodeTables
  <2>8. \A j \in Keys : otp'[j] # 0 => accepted'[otp'[j]] = 0
    BY <1>0, <2>3, <2>5, <2>6 DEF CodeTables, CodeTypes
  <2>9. KnowsCode(r)'
    BY <2>2 DEF KnowsCode, At
  <2>10. \A q \in Slots : KnowsCode(q)'
    BY <2>1, <2>2, <2>9, OnlyActor, CodesAlone
  <2>11. QED
    BY <1>0, <2>3, <2>7, <2>8, <2>10 DEF CodesKept, CodeTables
<1>7. ASSUME NEW r \in Slots, WritePassword(r)
      PROVE  CodesKept'
  <2>. DEFINE k == job[r].key
  <2>1. At(r, "reset", "password") /\ Goto(r, "forget") /\ "forget" \in Steps
    BY <1>7 DEF WritePassword, Steps
  <2>2. Others(r) /\ pc[r] # "idle" /\ pc'[r] = "forget" /\ job'[r] = job[r]
    BY <2>1, GotoStep DEF At
  <2>3. fresh' = [fresh EXCEPT ![k] = 0] /\ UNCHANGED <<otp, sent, accepted>>
    BY <1>7 DEF WritePassword
  <2>4. k \in Keys
    BY <2>1, JobTyped DEF At, TypeOK
  <2>5. fresh'[k] = 0 /\ \A j \in Keys \ {k} : fresh'[j] = fresh[j]
    BY <1>0, <2>3, <2>4 DEF CodeTypes
  <2>6. CodeTables'
    BY <1>0, <2>3, <2>5 DEF CodeTables
  <2>7. KnowsCode(r)'
    BY <2>2, <2>5 DEF KnowsCode, At
  <2>8. \A q \in Slots : KnowsCode(q)'
    BY <2>2, <2>7, OnlyActor, CodesAlone
  <2>9. QED
    BY <2>6, <2>8 DEF CodesKept, CodeTables
<1>8. ASSUME NEW r \in Slots, ForgetCode(r)
      PROVE  CodesKept'
  <2>. DEFINE k == job[r].key
  <2>1. At(r, "reset", "forget") /\ Close(r) /\ pc[r] # "idle"
    BY <1>8 DEF ForgetCode, At
  <2>2. Others(r) /\ pc'[r] = "idle"
    BY <2>1, CloseStep
  <2>3. otp' = [otp EXCEPT ![k] = 0] /\ UNCHANGED <<fresh, sent, accepted>>
    BY <1>8 DEF ForgetCode
  <2>4. k \in Keys /\ fresh'[k] = 0
    BY <1>0, <2>1, <2>3, JobTyped DEF At, TypeOK, KnowsCode
  <2>5. CodeTables'
    BY <1>0, <2>3, <2>4, CodeCleared
  <2>6. KnowsCode(r)'
    BY <2>2 DEF KnowsCode, At
  <2>7. \A q \in Slots : KnowsCode(q)'
    BY <2>1, <2>2, <2>6, OnlyActor, CodesAlone
  <2>8. QED
    BY <2>5, <2>7 DEF CodesKept, CodeTables
<1>9. QED
  BY <1>1, <1>2, <1>3, <1>4, <1>5, <1>6, <1>7, <1>8 DEF CodeSteps

\* The review and the address book open no shop.
LEMMA NoNewShop ==
    ASSUME Typed, ReviewSteps \/ BookSteps
    PROVE  \A u \in Users : IsSeller(u)' => IsSeller(u)
<1>1. seller' = seller \/ \E u \in Users : SellerMove(u) /\ IsSeller(u)
  BY ReviewMoves, BookMoves
<1>2. QED
  BY <1>1 DEF SellerMove, IsSeller

\* Neither do they write an account.
LEMMA NoNewAccount ==
    ASSUME ReviewSteps \/ BookSteps
    PROVE  UNCHANGED <<account, turnedAway>>
<1>1. CASE ReviewSteps
  BY <1>1 DEF ReviewSteps, ReviewSeller, Resubmit, WriteApproval, WriteRejection, WriteChanges,
     FindPickup, WriteResubmission, WriteSeller, ReregisterSeller, UpdateProfile,
     UpdateStoreDetails, UpdateBankDetails, UpdateSignature, Fill, OnlySeller, OnlySlot,
     OnlyCodes, entry
<1>2. CASE BookSteps
  BY <1>2 DEF BookSteps, UpdatePickup, CreateDefaultAddress, MakeDefault, SavePickup,
     SaveBusinessAddress, WriteSeller, SaveNewDefault, SaveDefault, CreateAddress, DropDefault,
     DeleteAddress, OnlySeller, OnlyBook, OnlySlot, OnlyCodes, entry
<1>3. QED
  BY <1>1, <1>2

LEMMA AccountsAlone ==
    ASSUME NEW r \in Slots, KnowsAccount(r)', \A q \in Slots \ {r} : pc'[q] = "idle"
    PROVE  \A q \in Slots : KnowsAccount(q)'
BY DEF KnowsAccount, At

\* Accounts and their e-mails stay, so whom a double turned away has it still.
LEMMA TurnedAwayStays ==
    ASSUME AccountsKept, Grows, EntryTypes, NEW u \in turnedAway
    PROVE  Exists(u)' /\ TurnedAwayFor(u)'
<1>1. PICK v \in Users \ {u} :
        Exists(v) /\ Mailbox[account[v].email] = Mailbox[account[u].email]
  BY DEF AccountsKept, TurnedAwayFor
<1>2. u \in Users /\ Exists(u)
  BY DEF EntryTypes, AccountsKept
<1>3. /\ Exists(u)' /\ account'[u].email = account[u].email
      /\ Exists(v)' /\ account'[v].email = account[v].email
  BY <1>1, <1>2 DEF Grows
<1>4. QED
  BY <1>1, <1>3 DEF TurnedAwayFor

LEMMA AccountsSerial ==
    ASSUME serial, Typed, Alone, AccountsKept, CodeSteps \/ RegistrationSteps
    PROVE  AccountsKept'
<1>. USE AccountsAssumption DEF Typed
<1>0. EntryTypes /\ Grows
  BY TypeParts, CodeTyped, RegistrationTyped DEF Kept
<1>1. ASSUME turnedAway' = turnedAway
      PROVE  \A u \in turnedAway' : Exists(u)' /\ TurnedAwayFor(u)'
  BY <1>0, <1>1, TurnedAwayStays
<1>2. CASE CodeSteps
  <2>1. seller' = seller /\ turnedAway' = turnedAway
    BY <1>2, CodeTyped
  <2>2. ASSUME NEW r \in Slots, WritePassword(r)
        PROVE  AccountsKept'
    <3>1. /\ account' = [account EXCEPT ![Of(r)].password = job[r].password]
          /\ At(r, "reset", "password") /\ Goto(r, "forget") /\ "forget" \in Steps
      BY <2>2 DEF WritePassword, Steps
    <3>2. Of(r) \in Users /\ Exists(Of(r)) /\ job[r].password \in Passwords
      BY <3>1, JobTyped DEF At, TypeOK, Of, Bound, BoundCode
    <3>3. account[Of(r)] \in Account
      BY <3>2 DEF TypeOK, Exists
    <3>4. \A u \in Users : Exists(u)' =>
             Exists(u) /\ account'[u].roles = account[u].roles /\ account'[u].buyer = account[u].buyer
      BY <3>1, <3>2, <3>3 DEF TypeOK, Exists, Account
    <3>5. \A u \in Users : IsSeller(u) => Exists(u)'
      BY <1>0 DEF TypeOK, Grows
    <3>6. \A u \in Users : Roles(u)'
      BY <2>1, <3>4, <3>5 DEF AccountsKept, Roles, IsSeller
    <3>7. Others(r) /\ pc[r] # "idle" /\ pc'[r] = "forget"
      BY <3>1, GotoStep DEF At
    <3>8. KnowsAccount(r)'
      BY <3>7 DEF KnowsAccount, At
    <3>9. \A q \in Slots : KnowsAccount(q)'
      BY <3>7, <3>8, OnlyActor, AccountsAlone
    <3>10. QED
      BY <1>1, <2>1, <3>6, <3>9 DEF AccountsKept
  <2>3. account' = account \/ \E r \in Slots : WritePassword(r)
    BY <1>2 DEF CodeSteps, SendCode, CodeExpires, VerifyOtp, ResetPassword, DropCode, SignIn,
       ForgetCode, OnlySlot, OnlyCodes
  <2>4. CASE account' = account
    <3>1. Moved(CodeAt) /\ CodeAt \cap RegisterAt = {}
      BY <1>2, CodeSlots, StepSets
    <3>2. \A u \in Users : IsSeller(u)' => IsSeller(u)
      BY <2>1 DEF IsSeller
    <3>3. QED
      BY <2>1, <2>4, <3>1, <3>2, AccountsFrame
  <2>5. QED
    BY <2>2, <2>3, <2>4
<1>3. ASSUME NEW u \in Users, Login(u) \/ SessionExpires(u)
      PROVE  AccountsKept'
  <2>1. UNCHANGED <<account, turnedAway, seller, pc, job>>
    BY <1>3 DEF Login, SessionExpires, OnlyCodes, AtOnce, slot
  <2>2. QED
    BY <2>1 DEF AccountsKept, Roles, Exists, IsSeller, TurnedAwayFor, KnowsAccount, At, Of
<1>4. ASSUME NEW r \in Slots, NEW kind \in Role, NEW p \in Phones, NEW e \in Emails,
             NEW w \in Passwords, Register(r, kind, p, e, w)
      PROVE  AccountsKept'
  <2>. DEFINE same == {u \in Users : Exists(u) /\ account[u].phone = p}
              of == IF same = {} THEN NoUser ELSE CHOOSE u \in same : TRUE
              roles == IF of = NoUser THEN {} ELSE account[of].roles
  <2>1. of = NoUser \/ (of \in Users /\ Exists(of))
    OBVIOUS
  <2>2. roles \in SUBSET Role
    BY <2>1 DEF TypeOK, Exists, Account
  <2>3. Begin(r, "commit", [op |-> "register", kind |-> kind, phone |-> p, email |-> e,
                            password |-> w, user |-> of, roles |-> roles])
    BY <1>4 DEF Register
  <2>4. of # NoUser => roles = account[of].roles
    OBVIOUS
  <2>. HIDE DEF of, roles
  <2>5. PICK o, known : o = of /\ known = roles
    OBVIOUS
  <2>. DEFINE locals == [op |-> "register", kind |-> kind, phone |-> p, email |-> e,
                         password |-> w, user |-> o, roles |-> known]
  <2>6. locals \in Jobs /\ "commit" \in Steps
    BY <2>1, <2>2, <2>5 DEF Jobs, Steps
  <2>7. Others(r) /\ Admitted /\ pc'[r] = "commit" /\ job'[r] = locals
    BY <2>3, <2>5, <2>6, BeginStep
  <2>8. UNCHANGED <<account, turnedAway, seller>>
    BY <1>4 DEF Register, OnlySlot, OnlyCodes, entry
  <2>9. o # NoUser => known = account'[o].roles
    BY <2>4, <2>5, <2>8
  <2>10. KnowsAccount(r)'
    BY <2>7, <2>9 DEF KnowsAccount, At, Of
  <2>11. \A q \in Slots : KnowsAccount(q)'
    BY <2>7, <2>10, OnlyActor, AccountsAlone
  <2>12. \A u \in Users : Roles(u)'
    BY <2>8 DEF AccountsKept, Roles, Exists, IsSeller
  <2>13. QED
    BY <1>1, <2>8, <2>11, <2>12 DEF AccountsKept
<1>5. ASSUME NEW r \in Slots, CommitRegistration(r)
      PROVE  AccountsKept'
  <2>1. At(r, "register", "commit") /\ pc' = [pc EXCEPT ![r] = "login"] /\ turnedAway' = turnedAway
    BY <1>5 DEF CommitRegistration, entry
  <2>2. PICK u \in Users :
          /\ CommitUser(r, u) /\ job' = [job EXCEPT ![r].user = u]
          /\ IF job[r].kind = "SELLER" THEN CommitSeller(u) ELSE UNCHANGED <<seller, book, minted>>
    BY <1>5 DEF CommitRegistration
  <2>3. job[r] \in [op : {"register"}, kind : Role, phone : Phones, email : Emails,
          password : Passwords, user : Users \cup {NoUser}, roles : SUBSET Role]
    BY <2>1 DEF TypeOK, Jobs, At
  <2>4. job'[r] = [job[r] EXCEPT !.user = u]
    BY <2>2 DEF TypeOK
  <2>5. Of(r)' = u /\ job'[r].password = job[r].password /\ job'[r].op = "register"
    BY <2>3, <2>4 DEF Of
  <2>6. Others(r) /\ pc[r] # "idle" /\ pc'[r] = "login"
    BY <2>1, <2>2 DEF TypeOK, Others, At
  <2>7. /\ \A v \in Users \ {u} : account'[v] = account[v]
        /\ account'[u].password = job[r].password /\ Exists(u)'
        /\ account'[u].roles = (IF Exists(u) THEN job[r].roles ELSE {}) \cup {job[r].kind}
        /\ account'[u].buyer = ((Exists(u) /\ account[u].buyer) \/ job[r].kind = "BUYER")
        /\ Of(r) \in {NoUser, u} /\ (Exists(u) <=> Of(r) # NoUser)
    BY <2>1, <2>2, UserCommitted DEF Bound
  <2>8. KnowsAccount(r)'
    BY <2>5, <2>6, <2>7 DEF KnowsAccount, At
  <2>9. \A q \in Slots : KnowsAccount(q)'
    BY <2>6, <2>8, OnlyActor, AccountsAlone
  <2>10. Exists(u) => job[r].roles = account[u].roles
    BY <2>1, <2>7 DEF AccountsKept, KnowsAccount
  <2>11. \A v \in Users \ {u} : seller'[v] = seller[v]
    BY <2>2, SellerCommitted
  <2>12. IsSeller(u)' => IsSeller(u) \/ job[r].kind = "SELLER"
    BY <2>2 DEF IsSeller
  <2>13. IsSeller(u) => Exists(u)
    BY DEF TypeOK
  <2>14. Roles(u)'
    <3>1. Roles(u)
      BY DEF AccountsKept
    <3>2. account'[u].buyer => "BUYER" \in account'[u].roles
      BY <2>7, <2>10, <3>1 DEF Roles
    <3>3. IsSeller(u)' => "SELLER" \in account'[u].roles
      BY <2>7, <2>10, <2>12, <2>13, <3>1 DEF Roles
    <3>4. QED
      BY <3>2, <3>3 DEF Roles
  <2>15. \A v \in Users \ {u} : Roles(v)'
    BY <2>7, <2>11 DEF AccountsKept, Roles, Exists, IsSeller
  <2>16. QED
    BY <1>1, <2>1, <2>9, <2>14, <2>15 DEF AccountsKept
<1>6. ASSUME NEW r \in Slots, LoginRegistered(r)
      PROVE  AccountsKept'
  <2>1. /\ At(r, "register", "login") /\ Close(r) /\ pc[r] # "idle"
        /\ UNCHANGED <<account, seller>>
    BY <1>6 DEF LoginRegistered, OnlyCodes, At
  <2>2. Others(r) /\ pc'[r] = "idle"
    BY <2>1, CloseStep
  <2>3. KnowsAccount(r)'
    BY <2>2 DEF KnowsAccount, At
  <2>4. \A q \in Slots : KnowsAccount(q)'
    BY <2>1, <2>2, <2>3, OnlyActor, AccountsAlone
  <2>5. /\ Exists(Of(r)) /\ account[Of(r)].email = job[r].email
        /\ account[Of(r)].password = job[r].password
    BY <2>1 DEF Bound, BoundRegister, AccountsKept, KnowsAccount
  <2>6. PICK u \in Users :
          /\ Exists(u) /\ Mailbox[account[u].email] = Mailbox[job[r].email]
          /\ IF account[u].password = job[r].password
             THEN turnedAway' = turnedAway
             ELSE turnedAway' = turnedAway \cup {Of(r)}
    BY <1>6 DEF LoginRegistered
  <2>7. \A v \in turnedAway' : Exists(v)' /\ TurnedAwayFor(v)'
    <3>1. CASE account[u].password = job[r].password
      BY <1>1, <2>6, <3>1
    <3>2. CASE account[u].password # job[r].password
      <4>1. u \in Users \ {Of(r)} /\ turnedAway' = turnedAway \cup {Of(r)}
        BY <2>5, <2>6, <3>2
      <4>2. TurnedAwayFor(Of(r))
        BY <2>5, <2>6, <4>1 DEF TurnedAwayFor
      <4>3. \A v \in turnedAway \cup {Of(r)} : Exists(v) /\ TurnedAwayFor(v)
        BY <2>5, <4>2 DEF AccountsKept
      <4>4. QED
        BY <2>1, <4>1, <4>3 DEF Exists, TurnedAwayFor
    <3>3. QED
      BY <3>1, <3>2
  <2>8. \A v \in Users : Roles(v)'
    BY <2>1 DEF AccountsKept, Roles, Exists, IsSeller
  <2>9. QED
    BY <2>4, <2>7, <2>8 DEF AccountsKept
<1>7. QED
  BY <1>2, <1>3, <1>4, <1>5, <1>6 DEF RegistrationSteps

LEMMA ToldStep ==
    ASSUME Typed, SellersKept, [Next]_vars
    PROVE  \A u \in Users : Told(u)'
<1>1. CASE seller' = seller
  BY <1>1 DEF SellersKept, Told, IsSeller
<1>2. ASSUME NEW u \in Users, SellerMove(u)
      PROVE  \A v \in Users : Told(v)'
  <2>1. \A v \in Users \ {u} : Told(v)'
    BY <1>2 DEF SellerMove, SellersKept, Told, IsSeller
  <2>2. Told(u)'
    <3>1. CASE Applied(u) \/ Cleared(u)
      BY <3>1 DEF Applied, Cleared, Told
    <3>2. CASE Filled(u)
      BY <3>2 DEF Filled, Told, SellersKept
    <3>3. ASSUME NEW r \in Slots, Of(r) = u, Decided(r)
          PROVE  Told(u)'
      <4>1. pc[r] \in ReviewAt
        BY <3>3 DEF Decided, ReviewAt
      <4>2. job[r].op = "resubmit" => seller[u].missing = {}
        BY <3>3, <4>1 DEF SellersKept, KnowsSeller
      <4>3. QED
        BY <3>3, <4>2 DEF Decided, Told
    <3>4. QED
      BY <1>2, <3>1, <3>2, <3>3 DEF SellerMove
  <2>3. QED
    BY <2>1, <2>2
<1>3. QED
  BY <1>1, <1>2, SellerMoves

LEMMA SellersAlone ==
    ASSUME NEW r \in Slots, KnowsSeller(r)', \A q \in Slots \ {r} : pc'[q] = "idle"
    PROVE  \A q \in Slots : KnowsSeller(q)'
BY DEF KnowsSeller, ReviewAt

LEMMA SellersSerial ==
    ASSUME serial, Typed, Alone, SellersKept, RegistrationSteps \/ ReviewSteps \/ BookSteps
    PROVE  SellersKept'
<1>. USE DEF Typed
<1>0. \A u \in Users : Told(u)'
  BY ToldStep DEF Next
<1>1. ASSUME NEW r \in Slots, Others(r), pc[r] # "idle" \/ Admitted, pc'[r] \notin ReviewAt
      PROVE  SellersKept'
  <2>1. KnowsSeller(r)'
    BY <1>1 DEF KnowsSeller
  <2>2. \A q \in Slots : KnowsSeller(q)'
    BY <1>1, <2>1, OnlyActor, SellersAlone
  <2>3. QED
    BY <1>0, <2>2 DEF SellersKept
<1>2. ASSUME pc' = pc, Admitted
      PROVE  SellersKept'
  <2>1. \A r \in Slots : KnowsSeller(r)'
    BY <1>2 DEF Admitted, KnowsSeller, ReviewAt
  <2>2. QED
    BY <1>0, <2>1 DEF SellersKept
<1>3. CASE RegistrationSteps
  <2>1. ASSUME NEW r \in Slots, CommitRegistration(r)
        PROVE  SellersKept'
    <3>1. Others(r) /\ pc[r] # "idle" /\ pc'[r] = "login"
      BY <2>1 DEF CommitRegistration, At, Others, TypeOK
    <3>2. QED
      BY <1>1, <3>1 DEF ReviewAt
  <2>2. CASE \A r \in Slots : ~CommitRegistration(r)
    <3>1. seller' = seller
      BY <1>3, <2>2 DEF RegistrationSteps, Login, SessionExpires, Register, LoginRegistered,
         OnlySlot, OnlyCodes
    <3>2. Moved(RegisterAt) /\ RegisterAt \cap ReviewAt = {}
      BY <1>3, RegistrationSlots, StepSets
    <3>3. QED
      BY <3>1, <3>2, SellersFrame
  <2>3. QED
    BY <2>1, <2>2
<1>4. CASE BookSteps
  <2>1. ASSUME NEW r \in Slots, SaveBusinessAddress(r)
        PROVE  SellersKept'
    <3>1. pc[r] # "idle" /\ Close(r)
      BY <2>1 DEF SaveBusinessAddress, WriteSeller, At
    <3>2. Others(r) /\ pc'[r] = "idle"
      BY <3>1, CloseStep
    <3>3. QED
      BY <1>1, <3>1, <3>2 DEF ReviewAt
  <2>2. CASE \A r \in Slots : ~SaveBusinessAddress(r)
    <3>1. seller' = seller
      BY <1>4, <2>2 DEF BookSteps, UpdatePickup, CreateDefaultAddress, MakeDefault, SavePickup,
         SaveNewDefault, SaveDefault, CreateAddress, DropDefault, DeleteAddress, OnlyBook,
         OnlySlot, OnlyCodes
    <3>2. Moved(BookAt) /\ BookAt \cap ReviewAt = {}
      BY <1>4, BookSlots, StepSets
    <3>3. QED
      BY <3>1, <3>2, SellersFrame
  <2>3. QED
    BY <2>1, <2>2
<1>5. ASSUME NEW r \in Slots, NEW u \in Users, NEW op \in {"approve", "reject", "requestChanges"},
             ReviewSeller(r, u, op)
      PROVE  SellersKept'
  <2>. DEFINE locals == [op |-> op, user |-> u, seen |-> seller[u].status]
  <2>1. seller[u].status \in Status
    BY <1>5 DEF ReviewSeller, TypeOK, IsSeller, Seller
  <2>2. Begin(r, "write", locals) /\ locals \in Jobs /\ "write" \in Steps
    BY <1>5, <2>1 DEF ReviewSeller, Jobs, Steps
  <2>3. Others(r) /\ Admitted /\ pc'[r] = "write" /\ job'[r] = locals
    BY <2>2, BeginStep
  <2>4. seller' = seller /\ seller[u].status \in MayDecide(op)
    BY <1>5 DEF ReviewSeller, OnlySlot, OnlyCodes
  <2>5. KnowsSeller(r)'
    BY <2>3, <2>4 DEF KnowsSeller, Of, ReviewAt
  <2>6. \A q \in Slots : KnowsSeller(q)'
    BY <2>3, <2>5, OnlyActor, SellersAlone
  <2>7. QED
    BY <1>0, <2>6 DEF SellersKept
<1>6. ASSUME NEW r \in Slots, NEW u \in Users, Resubmit(r, u)
      PROVE  SellersKept'
  <2>. DEFINE locals == [op |-> "resubmit", user |-> u, seen |-> "NEEDS_CHANGES"]
  <2>1. Begin(r, "pickup", locals) /\ locals \in Jobs /\ "pickup" \in Steps
    BY <1>6 DEF Resubmit, Jobs, Steps, Status
  <2>2. Others(r) /\ Admitted /\ pc'[r] = "pickup" /\ job'[r] = locals
    BY <2>1, BeginStep
  <2>3. seller' = seller /\ seller[u].status = "NEEDS_CHANGES" /\ seller[u].missing = {}
    BY <1>6 DEF Resubmit, OnlySlot, OnlyCodes
  <2>4. KnowsSeller(r)'
    BY <2>2, <2>3 DEF KnowsSeller, Of, ReviewAt
  <2>5. \A q \in Slots : KnowsSeller(q)'
    BY <2>2, <2>4, OnlyActor, SellersAlone
  <2>6. QED
    BY <1>0, <2>5 DEF SellersKept
<1>7. ASSUME NEW r \in Slots, FindPickup(r)
      PROVE  SellersKept'
  <2>1. At(r, "resubmit", "pickup") /\ Goto(r, "write") /\ "write" \in Steps /\ seller' = seller
    BY <1>7 DEF FindPickup, Steps, OnlySlot, OnlyCodes
  <2>2. Others(r) /\ pc[r] # "idle" /\ pc'[r] = "write" /\ job'[r] = job[r]
    BY <2>1, GotoStep DEF At
  <2>3. KnowsSeller(r) /\ pc[r] \in ReviewAt
    BY <2>1 DEF SellersKept, At, ReviewAt
  <2>4. KnowsSeller(r)'
    BY <2>1, <2>2, <2>3 DEF KnowsSeller, Of
  <2>5. \A q \in Slots : KnowsSeller(q)'
    BY <2>2, <2>4, OnlyActor, SellersAlone
  <2>6. QED
    BY <1>0, <2>5 DEF SellersKept
<1>8. ASSUME NEW r \in Slots,
             WriteApproval(r) \/ WriteRejection(r) \/ WriteChanges(r) \/ WriteResubmission(r)
      PROVE  SellersKept'
  <2>1. pc[r] # "idle" /\ Close(r)
    BY <1>8 DEF WriteApproval, WriteRejection, WriteChanges, WriteResubmission, WriteSeller, At
  <2>2. Others(r) /\ pc'[r] = "idle"
    BY <2>1, CloseStep
  <2>3. QED
    BY <1>1, <2>1, <2>2 DEF ReviewAt
<1>9. ASSUME NEW u \in Users, NEW blank \in BOOLEAN,
             \/ ReregisterSeller(u) \/ UpdateProfile(u) \/ UpdateStoreDetails(u, blank)
             \/ UpdateBankDetails(u, blank) \/ UpdateSignature(u, blank)
      PROVE  SellersKept'
  BY <1>2, <1>9 DEF ReregisterSeller, UpdateProfile, UpdateStoreDetails, UpdateBankDetails,
     UpdateSignature, Fill, AtOnce, slot
<1>10. CASE ReviewSteps
  BY <1>5, <1>6, <1>7, <1>8, <1>9, <1>10 DEF ReviewSteps
<1>11. QED
  BY <1>3, <1>4, <1>10

(***************************************************************************)
(* Sets of addresses.                                                      *)
(***************************************************************************)
LEMMA FewerAddresses ==
    ASSUME NEW B, NEW C \in SUBSET B, NEW n, Numbered(B, n), OneMark(B)
    PROVE  Numbered(C, n) /\ OneMark(C)
BY DEF Numbered, OneMark

LEMMA NewAddress ==
    ASSUME NEW B \in SUBSET Address, NEW n \in Nat, NEW x \in Address, Numbered(B, n), OneMark(B),
           x.id = n + 1,
           x.type = "SHIPPING" /\ x.isDefault => \A a \in B : a.type = "SHIPPING" => ~a.isDefault
    PROVE  Numbered(B \cup {x}, n + 1) /\ OneMark(B \cup {x})
<1>1. \A a \in B : a.id \in Nat /\ a.id <= n
  BY DEF Address, Numbered
<1>2. Numbered(B \cup {x}, n + 1)
  BY <1>1 DEF Numbered
<1>3. OneMark(B \cup {x})
  BY DEF OneMark
<1>4. QED
  BY <1>2, <1>3

\* Marks are set and cleared address by address.
LEMMA Remarked ==
    ASSUME NEW B \in SUBSET Address, NEW n, Numbered(B, n), NEW f \in [B -> Address],
           \A a \in B : f[a].id = a.id
    PROVE  Numbered({f[a] : a \in B}, n)
BY DEF Numbered

LEMMA MarksBefore ==
    ASSUME NEW B, NEW C, OneMark(B), \A c \in C : c.type = "SHIPPING" /\ c.isDefault => c \in B
    PROVE  OneMark(C)
BY DEF OneMark

LEMMA MarksAt ==
    ASSUME NEW C, NEW n, NEW i, Numbered(C, n), \A c \in C : c.isDefault => c.id = i
    PROVE  OneMark(C)
BY DEF OneMark, Numbered

\* What the mark leaves alone.
LEMMA MarkKeeps ==
    ASSUME NEW a \in Address
    PROVE  /\ [a EXCEPT !.isDefault = FALSE].id = a.id /\ [a EXCEPT !.isDefault = TRUE].id = a.id
           /\ [a EXCEPT !.isDefault = FALSE].type = a.type
           /\ [a EXCEPT !.isDefault = TRUE].type = a.type
           /\ ~[a EXCEPT !.isDefault = FALSE].isDefault
BY DEF Address

OthersOff(B, i) == {IF a.id = i THEN a ELSE [a EXCEPT !.isDefault = FALSE] : a \in B}
OneOff(B, i) == {IF a.id = i THEN [a EXCEPT !.isDefault = FALSE] ELSE a : a \in B}
OneOn(B, i) == {IF a.id = i THEN [a EXCEPT !.isDefault = TRUE] ELSE a : a \in B}

LEMMA AllCleared ==
    ASSUME NEW B \in SUBSET Address, NEW n, Numbered(B, n)
    PROVE  LET C == {[a EXCEPT !.isDefault = FALSE] : a \in B}
           IN  Numbered(C, n) /\ \A c \in C : ~c.isDefault
<1>. DEFINE f == [a \in B |-> [a EXCEPT !.isDefault = FALSE]]
            C == {[a EXCEPT !.isDefault = FALSE] : a \in B}
<1>1. f \in [B -> Address] /\ \A a \in B : f[a].id = a.id
  BY MarkTyped, MarkKeeps
<1>2. C = {f[a] : a \in B}
  OBVIOUS
<1>. HIDE DEF f
<1>3. Numbered(C, n)
  BY <1>1, <1>2, Remarked
<1>4. \A c \in C : ~c.isDefault
  BY MarkKeeps
<1>5. QED
  BY <1>3, <1>4

LEMMA OthersCleared ==
    ASSUME NEW B \in SUBSET Address, NEW n, NEW i, Numbered(B, n)
    PROVE  LET C == OthersOff(B, i) IN Numbered(C, n) /\ \A c \in C : c.isDefault => c.id = i
<1>. DEFINE f == [a \in B |-> IF a.id = i THEN a ELSE [a EXCEPT !.isDefault = FALSE]]
            C == OthersOff(B, i)
<1>1. f \in [B -> Address] /\ \A a \in B : f[a].id = a.id
  BY MarkTyped, MarkKeeps
<1>2. C = {f[a] : a \in B}
  BY DEF OthersOff
<1>. HIDE DEF f
<1>3. Numbered(C, n)
  BY <1>1, <1>2, Remarked
<1>4. \A c \in C : c.isDefault => c.id = i
  BY MarkKeeps DEF OthersOff
<1>5. QED
  BY <1>3, <1>4

LEMMA OneCleared ==
    ASSUME NEW B \in SUBSET Address, NEW n, NEW i, Numbered(B, n), OneMark(B)
    PROVE  LET C == OneOff(B, i) IN Numbered(C, n) /\ OneMark(C)
<1>. DEFINE f == [a \in B |-> IF a.id = i THEN [a EXCEPT !.isDefault = FALSE] ELSE a]
            C == OneOff(B, i)
<1>1. f \in [B -> Address] /\ \A a \in B : f[a].id = a.id
  BY MarkTyped, MarkKeeps
<1>2. C = {f[a] : a \in B}
  BY DEF OneOff
<1>. HIDE DEF f
<1>3. Numbered(C, n)
  BY <1>1, <1>2, Remarked
<1>4. \A c \in C : c.isDefault => c \in B
  BY MarkKeeps DEF OneOff
<1>. HIDE DEF C
<1>5. OneMark(C)
  BY <1>4, MarksBefore
<1>6. QED
  BY <1>3, <1>5 DEF C

LEMMA PickupsCleared ==
    ASSUME NEW B \in SUBSET Address, NEW n, Numbered(B, n), OneMark(B)
    PROVE  LET C == {IF a.type = "PICKUP" THEN [a EXCEPT !.isDefault = FALSE] ELSE a : a \in B}
           IN  Numbered(C, n) /\ OneMark(C) /\ C \in SUBSET Address
<1>. DEFINE f == [a \in B |-> IF a.type = "PICKUP" THEN [a EXCEPT !.isDefault = FALSE] ELSE a]
            C == {IF a.type = "PICKUP" THEN [a EXCEPT !.isDefault = FALSE] ELSE a : a \in B}
<1>1. f \in [B -> Address] /\ \A a \in B : f[a].id = a.id
  BY MarkTyped, MarkKeeps
<1>2. C = {f[a] : a \in B}
  OBVIOUS
<1>. HIDE DEF f
<1>3. Numbered(C, n)
  BY <1>1, <1>2, Remarked
<1>4. \A c \in C : c.isDefault => c \in B
  BY MarkKeeps
<1>5. C \in SUBSET Address
  BY MarkTyped
<1>. HIDE DEF C
<1>6. OneMark(C)
  BY <1>4, MarksBefore
<1>7. QED
  BY <1>3, <1>5, <1>6 DEF C

LEMMA OneMarked ==
    ASSUME NEW B \in SUBSET Address, NEW n, NEW i, Numbered(B, n), OneMark(B),
           \/ \A a \in B : a.id = i => a.type = "PICKUP"
           \/ \A a \in B : a.isDefault => a.id = i
    PROVE  LET C == OneOn(B, i) IN Numbered(C, n) /\ OneMark(C)
<1>. DEFINE f == [a \in B |-> IF a.id = i THEN [a EXCEPT !.isDefault = TRUE] ELSE a]
            C == OneOn(B, i)
<1>1. f \in [B -> Address] /\ \A a \in B : f[a].id = a.id
  BY MarkTyped, MarkKeeps
<1>2. C = {f[a] : a \in B}
  BY DEF OneOn
<1>. HIDE DEF f
<1>3. Numbered(C, n)
  BY <1>1, <1>2, Remarked
<1>4. CASE \A a \in B : a.id = i => a.type = "PICKUP"
  <2>1. \A c \in C : c.type = "SHIPPING" /\ c.isDefault => c \in B
    BY <1>4, MarkKeeps DEF OneOn
  <2>. HIDE DEF C
  <2>2. OneMark(C)
    BY <2>1, MarksBefore
  <2>3. QED
    BY <1>3, <2>2 DEF C
<1>5. CASE \A a \in B : a.isDefault => a.id = i
  <2>1. \A c \in C : c.isDefault => c.id = i
    BY <1>5, MarkKeeps DEF OneOn
  <2>. HIDE DEF C
  <2>2. OneMark(C)
    BY <1>3, <2>1, MarksAt DEF C
  <2>3. QED
    BY <1>3, <2>2 DEF C
<1>6. QED
  BY <1>4, <1>5

BookTables == \A u \in Users : Numbered(book[u], minted) /\ OneMark(book[u])

LEMMA BookReplaced ==
    ASSUME BookTypes, BookTables, NEW u \in Users, NEW C, book' = [book EXCEPT ![u] = C],
           minted' \in {minted, minted + 1}, Numbered(C, minted'), OneMark(C), BookTypes'
    PROVE  BookTables'
<1>1. book'[u] = C /\ \A v \in Users \ {u} : book'[v] = book[v]
  BY DEF BookTypes
<1>2. ASSUME NEW v \in Users \ {u} PROVE Numbered(book'[v], minted')
  <2>1. \A a \in book[v] : a.id \in Nat /\ a.id <= minted
    BY DEF BookTypes, BookTables, Numbered, Address
  <2>2. \A a \in book[v] : a.id <= minted'
    BY <2>1 DEF BookTypes
  <2>3. QED
    BY <1>1, <2>2 DEF BookTables, Numbered
<1>3. QED
  BY <1>1, <1>2 DEF BookTables

LEMMA BookAlone ==
    ASSUME NEW r \in Slots, KnowsBook(r)', \A q \in Slots \ {r} : pc'[q] = "idle"
    PROVE  \A q \in Slots : KnowsBook(q)'
BY DEF KnowsBook, At

LEMMA BookSerial ==
    ASSUME serial, Typed, Alone, BookKept, RegistrationSteps \/ ReviewSteps \/ BookSteps
    PROVE  BookKept'
<1>. USE DEF Typed
<1>0. /\ BookTypes /\ BookTypes' /\ BookTables /\ minted \in Nat
      /\ \A u \in Users : book[u] \in SUBSET Address
  BY TypeParts, RegistrationTyped, ReviewTyped, BookTyped DEF Kept, BookKept, BookTables, BookTypes
<1>1. ASSUME BookTables', NEW r \in Slots, Others(r), pc[r] # "idle" \/ Admitted,
             pc'[r] # "save"
      PROVE  BookKept'
  <2>1. KnowsBook(r)'
    BY <1>1 DEF KnowsBook, At
  <2>2. \A q \in Slots : KnowsBook(q)'
    BY <1>1, <2>1, OnlyActor, BookAlone
  <2>3. QED
    BY <1>1, <2>2 DEF BookKept, BookTables
<1>2. ASSUME BookTables', pc' = pc, Admitted
      PROVE  BookKept'
  <2>1. \A r \in Slots : KnowsBook(r)'
    BY <1>2 DEF Admitted, KnowsBook, At
  <2>2. QED
    BY <1>2, <2>1 DEF BookKept, BookTables
<1>3. ASSUME BookTables', NEW r \in Slots, Others(r), Admitted, KnowsBook(r)'
      PROVE  BookKept'
  <2>1. \A q \in Slots : KnowsBook(q)'
    BY <1>3, OnlyActor, BookAlone
  <2>2. QED
    BY <1>3, <2>1 DEF BookKept, BookTables
<1>4. ASSUME NEW u \in Users, NEW kept \in SUBSET Address, Numbered(kept, minted), OneMark(kept),
             NEW type \in {"SHIPPING", "PICKUP"}, NEW mark \in BOOLEAN, Insert(u, kept, type, mark),
             type = "SHIPPING" /\ mark => \A a \in kept : a.type = "SHIPPING" => ~a.isDefault
      PROVE  BookTables'
  <2>. DEFINE x == [id |-> minted + 1, type |-> type, isDefault |-> mark]
  <2>1. x \in Address /\ x.id = minted + 1 /\ x.type = type /\ x.isDefault = mark
    BY <1>0 DEF Address
  <2>2. book' = [book EXCEPT ![u] = kept \cup {x}] /\ minted' = minted + 1
    BY <1>4 DEF Insert
  <2>. HIDE DEF x
  <2>3. Numbered(kept \cup {x}, minted + 1) /\ OneMark(kept \cup {x})
    BY <1>0, <1>4, <2>1, NewAddress
  <2>4. QED
    BY <1>0, <2>2, <2>3, BookReplaced
<1>5. CASE RegistrationSteps
  <2>1. ASSUME NEW r \in Slots, CommitRegistration(r)
        PROVE  BookKept'
    <3>1. Others(r) /\ pc[r] # "idle" /\ pc'[r] = "login"
      BY <2>1 DEF CommitRegistration, At, Others, TypeOK
    <3>2. UNCHANGED <<book, minted>> \/ \E u \in Users : CommitSeller(u)
      BY <2>1 DEF CommitRegistration
    <3>3. CASE UNCHANGED <<book, minted>>
      BY <1>0, <1>1, <3>1, <3>3 DEF BookTables
    <3>4. ASSUME NEW u \in Users, CommitSeller(u)
          PROVE  BookTables'
      <4>. DEFINE C == {IF a.type = "PICKUP" THEN [a EXCEPT !.isDefault = FALSE] ELSE a : a \in book[u]}
      <4>1. Insert(u, C, "PICKUP", TRUE)
        BY <3>4 DEF CommitSeller
      <4>2. Numbered(C, minted) /\ OneMark(C) /\ C \in SUBSET Address
        BY <1>0, PickupsCleared DEF BookTables
      <4>. HIDE DEF C
      <4>3. QED
        BY <1>4, <4>1, <4>2
    <3>5. QED
      BY <1>1, <3>1, <3>2, <3>3, <3>4
  <2>2. CASE \A r \in Slots : ~CommitRegistration(r)
    <3>1. UNCHANGED <<book, minted>>
      BY <1>5, <2>2 DEF RegistrationSteps, Login, SessionExpires, Register, LoginRegistered,
         OnlySlot, OnlyCodes
    <3>2. Moved(RegisterAt) /\ RegisterAt \cap BookAt = {}
      BY <1>5, RegistrationSlots, StepSets
    <3>3. QED
      BY <3>1, <3>2, BookFrame
  <2>3. QED
    BY <2>1, <2>2
<1>6. CASE ReviewSteps
  <2>1. ASSUME NEW u \in Users, ReregisterSeller(u)
        PROVE  BookKept'
    <3>1. /\ book' = [book EXCEPT ![u] = {a \in book[u] : a.type # "PICKUP"}] /\ minted' = minted
          /\ pc' = pc /\ Admitted
      BY <2>1 DEF ReregisterSeller, AtOnce, slot
    <3>2. LET C == {a \in book[u] : a.type # "PICKUP"} IN Numbered(C, minted) /\ OneMark(C)
      BY <1>0, FewerAddresses DEF BookTables
    <3>3. BookTables'
      BY <1>0, <3>1, <3>2, BookReplaced
    <3>4. QED
      BY <1>2, <3>1, <3>3
  <2>2. CASE \A u \in Users : ~ReregisterSeller(u)
    <3>1. UNCHANGED <<book, minted>>
      BY <1>6, <2>2 DEF ReviewSteps, ReviewSeller, Resubmit, WriteApproval, WriteRejection,
         WriteChanges, FindPickup, WriteResubmission, WriteSeller, UpdateProfile,
         UpdateStoreDetails, UpdateBankDetails, UpdateSignature, Fill, OnlySeller, OnlySlot, OnlyCodes
    <3>2. Moved(ReviewAt) /\ ReviewAt \cap BookAt = {}
      BY <1>6, ReviewSlots, StepSets
    <3>3. QED
      BY <3>1, <3>2, BookFrame
  <2>3. QED
    BY <2>1, <2>2
<1>7. ASSUME NEW r \in Slots, NEW u \in Users, UpdatePickup(r, u)
      PROVE  BookKept'
  <2>1. PICK i \in Newest(u) : Begin(r, "save", [op |-> "updatePickup", user |-> u, address |-> i])
    BY <1>7 DEF UpdatePickup
  <2>2. \A a \in book[u] : a.id \in Nat
    BY <1>0 DEF Address
  <2>3. i \in Nat /\ (i # 0 => \E a \in book[u] : a.id = i /\ a.type = "PICKUP")
    BY <2>2 DEF Newest
  <2>4. i # 0 => \A a \in book[u] : a.id = i => a.type = "PICKUP"
    BY <1>0, <2>3 DEF BookTables, Numbered
  <2>. DEFINE locals == [op |-> "updatePickup", user |-> u, address |-> i]
  <2>5. locals \in Jobs /\ "save" \in Steps
    BY <2>3 DEF Jobs, Steps
  <2>6. Others(r) /\ Admitted /\ pc'[r] = "save" /\ job'[r] = locals
    BY <2>1, <2>5, BeginStep
  <2>7. UNCHANGED <<book, minted>>
    BY <1>7 DEF UpdatePickup, OnlySlot, OnlyCodes
  <2>8. KnowsBook(r)'
    BY <2>4, <2>6, <2>7 DEF KnowsBook, At, Of
  <2>9. BookTables'
    BY <1>0, <2>7 DEF BookTables
  <2>10. QED
    BY <1>3, <2>6, <2>8, <2>9
<1>8. ASSUME NEW r \in Slots, NEW u \in Users, CreateDefaultAddress(r, u)
      PROVE  BookKept'
  <2>. DEFINE C == {[a EXCEPT !.isDefault = FALSE] : a \in book[u]}
              locals == [op |-> "create", user |-> u, address |-> 0]
  <2>1. Begin(r, "save", locals) /\ locals \in Jobs /\ "save" \in Steps
    BY <1>8 DEF CreateDefaultAddress, Jobs, Steps
  <2>2. Others(r) /\ Admitted /\ pc'[r] = "save" /\ job'[r] = locals
    BY <2>1, BeginStep
  <2>3. book' = [book EXCEPT ![u] = C] /\ minted' = minted
    BY <1>8 DEF CreateDefaultAddress
  <2>4. Numbered(C, minted) /\ \A c \in C : ~c.isDefault
    BY <1>0, AllCleared DEF BookTables
  <2>. HIDE DEF C
  <2>5. OneMark(C)
    BY <2>4 DEF OneMark
  <2>6. BookTables'
    BY <1>0, <2>3, <2>4, <2>5, BookReplaced
  <2>7. book'[u] = C
    BY <1>0, <2>3 DEF BookTypes
  <2>8. KnowsBook(r)'
    BY <2>2, <2>4, <2>7 DEF KnowsBook, At, Of
  <2>9. QED
    BY <1>3, <2>2, <2>6, <2>8
<1>9. ASSUME NEW r \in Slots, NEW u \in Users, NEW i \in Ids(u), MakeDefault(r, u, i)
      PROVE  BookKept'
  <2>. DEFINE C == OthersOff(book[u], i)
              locals == [op |-> "update", user |-> u, address |-> i]
  <2>1. i \in Nat
    BY <1>0 DEF Ids, Address
  <2>2. Begin(r, "save", locals) /\ locals \in Jobs /\ "save" \in Steps
    BY <1>9, <2>1 DEF MakeDefault, Jobs, Steps
  <2>3. Others(r) /\ Admitted /\ pc'[r] = "save" /\ job'[r] = locals
    BY <2>2, BeginStep
  <2>4. book' = [book EXCEPT ![u] = C] /\ minted' = minted
    BY <1>9 DEF MakeDefault, OthersOff
  <2>5. Numbered(C, minted) /\ \A c \in C : c.isDefault => c.id = i
    BY <1>0, OthersCleared DEF BookTables
  <2>. HIDE DEF C
  <2>6. OneMark(C)
    BY <2>5, MarksAt
  <2>7. BookTables'
    BY <1>0, <2>4, <2>5, <2>6, BookReplaced
  <2>8. book'[u] = C
    BY <1>0, <2>4 DEF BookTypes
  <2>9. KnowsBook(r)'
    BY <2>3, <2>5, <2>8 DEF KnowsBook, At, Of
  <2>10. QED
    BY <1>3, <2>3, <2>7, <2>9
<1>10. ASSUME NEW u \in Users, NEW i, book' = [book EXCEPT ![u] = Marked(u, i)], minted' = minted,
              \/ \A a \in book[u] : a.id = i => a.type = "PICKUP"
              \/ \A a \in book[u] : a.isDefault => a.id = i
       PROVE  BookTables'
  <2>1. Numbered(book[u], minted) /\ OneMark(book[u]) /\ book[u] \in SUBSET Address
    BY <1>0 DEF BookTables
  <2>2. Numbered(OneOn(book[u], i), minted) /\ OneMark(OneOn(book[u], i))
    BY <1>10, <2>1, OneMarked
  <2>3. Marked(u, i) = OneOn(book[u], i)
    BY DEF Marked, OneOn
  <2>4. QED
    BY <1>0, <1>10, <2>2, <2>3, BookReplaced
<1>11. ASSUME NEW r \in Slots, SavePickup(r)
       PROVE  BookKept'
  <2>1. At(r, "updatePickup", "save") /\ Goto(r, "legacy") /\ "legacy" \in Steps
    BY <1>11 DEF SavePickup, Steps
  <2>2. Others(r) /\ pc[r] # "idle" /\ pc'[r] = "legacy"
    BY <2>1, GotoStep DEF At
  <2>3. Of(r) \in Users
    BY <2>1, JobTyped DEF At, TypeOK, Of
  <2>4. BookTables'
    <3>1. CASE job[r].address = 0
      <4>1. Insert(Of(r), book[Of(r)], "PICKUP", TRUE)
        BY <1>11, <3>1 DEF SavePickup
      <4>2. QED
        BY <1>0, <1>4, <2>3, <4>1 DEF BookTables
    <3>2. CASE job[r].address # 0
      <4>1. book' = [book EXCEPT ![Of(r)] = Marked(Of(r), job[r].address)] /\ minted' = minted
        BY <1>11, <3>2 DEF SavePickup
      <4>2. \A a \in book[Of(r)] : a.id = job[r].address => a.type = "PICKUP"
        BY <2>1, <3>2 DEF BookKept, KnowsBook
      <4>3. QED
        BY <1>10, <2>3, <4>1, <4>2
    <3>3. QED
      BY <3>1, <3>2
  <2>5. QED
    BY <1>1, <2>2, <2>4
<1>12. ASSUME NEW r \in Slots, SaveBusinessAddress(r)
       PROVE  BookKept'
  <2>1. pc[r] # "idle" /\ Close(r) /\ UNCHANGED <<book, minted>>
    BY <1>12 DEF SaveBusinessAddress, WriteSeller, OnlySeller, At
  <2>2. Others(r) /\ pc'[r] = "idle"
    BY <2>1, CloseStep
  <2>3. BookTables'
    BY <1>0, <2>1 DEF BookTables
  <2>4. QED
    BY <1>1, <2>1, <2>2, <2>3
<1>13. ASSUME NEW r \in Slots, SaveNewDefault(r)
       PROVE  BookKept'
  <2>1. At(r, "create", "save") /\ pc[r] # "idle" /\ Close(r)
        /\ Insert(Of(r), book[Of(r)], "SHIPPING", TRUE)
    BY <1>13 DEF SaveNewDefault, At
  <2>2. Others(r) /\ pc'[r] = "idle"
    BY <2>1, CloseStep
  <2>3. Of(r) \in Users
    BY <2>1, JobTyped DEF At, TypeOK, Of
  <2>4. \A a \in book[Of(r)] : ~a.isDefault
    BY <2>1 DEF BookKept, KnowsBook
  <2>5. BookTables'
    BY <1>0, <1>4, <2>1, <2>3, <2>4 DEF BookTables
  <2>6. QED
    BY <1>1, <2>1, <2>2, <2>5
<1>14. ASSUME NEW r \in Slots, SaveDefault(r)
       PROVE  BookKept'
  <2>1. /\ At(r, "update", "save") /\ pc[r] # "idle" /\ Close(r)
        /\ book' = [book EXCEPT ![Of(r)] = Marked(Of(r), job[r].address)] /\ minted' = minted
    BY <1>14 DEF SaveDefault, At
  <2>2. Others(r) /\ pc'[r] = "idle"
    BY <2>1, CloseStep
  <2>3. Of(r) \in Users
    BY <2>1, JobTyped DEF At, TypeOK, Of
  <2>4. \A a \in book[Of(r)] : a.isDefault => a.id = job[r].address
    BY <2>1 DEF BookKept, KnowsBook
  <2>5. BookTables'
    BY <1>10, <2>1, <2>3, <2>4
  <2>6. QED
    BY <1>1, <2>1, <2>2, <2>5
<1>15. ASSUME NEW u \in Users, CreateAddress(u)
       PROVE  BookKept'
  <2>1. Insert(u, book[u], "SHIPPING", FALSE) /\ pc' = pc /\ Admitted
    BY <1>15 DEF CreateAddress, AtOnce, slot
  <2>2. BookTables'
    BY <1>0, <1>4, <2>1 DEF BookTables
  <2>3. QED
    BY <1>2, <2>1, <2>2
<1>16. ASSUME NEW u \in Users, NEW i \in Ids(u), DropDefault(u, i)
       PROVE  BookKept'
  <2>. DEFINE C == OneOff(book[u], i)
  <2>1. book' = [book EXCEPT ![u] = C] /\ minted' = minted /\ pc' = pc /\ Admitted
    BY <1>16 DEF DropDefault, AtOnce, slot, OneOff
  <2>2. Numbered(C, minted) /\ OneMark(C)
    BY <1>0, OneCleared DEF BookTables
  <2>. HIDE DEF C
  <2>3. BookTables'
    BY <1>0, <2>1, <2>2, BookReplaced
  <2>4. QED
    BY <1>2, <2>1, <2>3
<1>17. ASSUME NEW u \in Users, NEW i \in Ids(u), DeleteAddress(u, i)
       PROVE  BookKept'
  <2>. DEFINE C == {a \in book[u] : a.id # i}
  <2>1. book' = [book EXCEPT ![u] = C] /\ minted' = minted /\ pc' = pc /\ Admitted
    BY <1>17 DEF DeleteAddress, AtOnce, slot
  <2>2. Numbered(C, minted) /\ OneMark(C)
    BY <1>0, FewerAddresses DEF BookTables
  <2>. HIDE DEF C
  <2>3. BookTables'
    BY <1>0, <2>1, <2>2, BookReplaced
  <2>4. QED
    BY <1>2, <2>1, <2>3
<1>18. CASE BookSteps
  BY <1>7, <1>8, <1>9, <1>11, <1>12, <1>13, <1>14, <1>15, <1>16, <1>17, <1>18 DEF BookSteps
<1>19. QED
  BY <1>5, <1>6, <1>18

-----------------------------------------------------------------------------
(***************************************************************************)
(* The groups together.                                                    *)
(***************************************************************************)
LEMMA SerialInit == Init => SerialKept
<1>. SUFFICES ASSUME Init PROVE SerialKept
  OBVIOUS
<1>. USE AccountsAssumption
<1>1. \A r \in Slots : pc[r] = "idle"
  BY DEF Init
<1>2. Alone
  BY <1>1 DEF Alone
<1>3. CodesKept
  BY <1>1 DEF Init, CodesKept, KnowsCode, At
<1>4. AccountsKept
  BY <1>1 DEF Init, AccountsKept, KnowsAccount, At, Roles, Exists, IsSeller
<1>5. SellersKept
  BY <1>1 DEF Init, SellersKept, KnowsSeller, ReviewAt, Told, IsSeller
<1>6. BookKept
  BY <1>1 DEF Init, BookKept, KnowsBook, At, Numbered, OneMark
<1>7. QED
  BY <1>2, <1>3, <1>4, <1>5, <1>6 DEF SerialKept

LEMMA SerialNext == Typed /\ SerialKept /\ [Next]_vars => SerialKept'
<1>. SUFFICES ASSUME Typed, SerialKept, [Next]_vars, serial' PROVE
              Alone' /\ CodesKept' /\ AccountsKept' /\ SellersKept' /\ BookKept'
  BY DEF SerialKept
<1>. USE DEF Typed
<1>0. serial' = serial
  BY NextTyped DEF vars
<1>1. serial /\ Alone /\ CodesKept /\ AccountsKept /\ SellersKept /\ BookKept
  BY <1>0 DEF SerialKept
<1>2. CASE CodeSteps
  <2>1. /\ UNCHANGED <<seller, book, minted>> /\ Moved(CodeAt)
        /\ CodeAt \cap ReviewAt = {} /\ CodeAt \cap BookAt = {}
    BY <1>2, CodeTyped, CodeSlots, StepSets
  <2>2. Alone'
    BY <1>0, <1>1, <2>1, AloneStep
  <2>3. CodesKept' /\ AccountsKept'
    BY <1>1, <1>2, CodesSerial, AccountsSerial
  <2>4. SellersKept'
    BY <1>1, <2>1, SellersFrame
  <2>5. BookKept'
    BY <1>1, <2>1, BookFrame
  <2>6. QED
    BY <2>2, <2>3, <2>4, <2>5
<1>3. CASE RegistrationSteps
  <2>1. Unspent /\ Moved(RegisterAt) /\ RegisterAt \cap CodeAt = {}
    BY <1>3, RegistrationTyped, RegistrationSlots, StepSets
  <2>2. Alone'
    BY <1>0, <1>1, <2>1, AloneStep
  <2>3. AccountsKept' /\ SellersKept' /\ BookKept'
    BY <1>1, <1>3, AccountsSerial, SellersSerial, BookSerial
  <2>4. CodesKept'
    BY <1>1, <2>1, CodesFrame DEF Unspent
  <2>5. QED
    BY <2>2, <2>3, <2>4
<1>4. CASE ReviewSteps
  <2>1. /\ Unspent /\ Moved(ReviewAt)
        /\ ReviewAt \cap CodeAt = {} /\ ReviewAt \cap RegisterAt = {}
    BY <1>4, ReviewTyped, ReviewSlots, StepSets
  <2>2. Alone'
    BY <1>0, <1>1, <2>1, AloneStep
  <2>3. SellersKept' /\ BookKept'
    BY <1>1, <1>4, SellersSerial, BookSerial
  <2>4. CodesKept'
    BY <1>1, <2>1, CodesFrame DEF Unspent
  <2>5. AccountsKept'
    BY <1>1, <1>4, <2>1, NoNewShop, NoNewAccount, AccountsFrame
  <2>6. QED
    BY <2>2, <2>3, <2>4, <2>5
<1>5. CASE BookSteps
  <2>1. /\ Unspent /\ Moved(BookAt)
        /\ BookAt \cap CodeAt = {} /\ BookAt \cap RegisterAt = {}
    BY <1>5, BookTyped, BookSlots, StepSets
  <2>2. Alone'
    BY <1>0, <1>1, <2>1, AloneStep
  <2>3. SellersKept' /\ BookKept'
    BY <1>1, <1>5, SellersSerial, BookSerial
  <2>4. CodesKept'
    BY <1>1, <2>1, CodesFrame DEF Unspent
  <2>5. AccountsKept'
    BY <1>1, <1>5, <2>1, NoNewShop, NoNewAccount, AccountsFrame
  <2>6. QED
    BY <2>2, <2>3, <2>4, <2>5
<1>6. ASSUME NEW r \in Slots, Fail(r)
      PROVE  Alone' /\ CodesKept' /\ AccountsKept' /\ SellersKept' /\ BookKept'
  <2>1. /\ Unspent /\ UNCHANGED <<account, seller, book, minted, turnedAway>> /\ Moved({})
    BY <1>6, FailStep
  <2>2. Alone'
    BY <1>0, <1>1, <2>1, AloneStep
  <2>3. CodesKept'
    BY <1>1, <2>1, CodesFrame DEF Unspent
  <2>4. AccountsKept'
    BY <1>1, <2>1, AccountsFrame DEF IsSeller
  <2>5. SellersKept' /\ BookKept'
    BY <1>1, <2>1, SellersFrame, BookFrame
  <2>6. QED
    BY <2>2, <2>3, <2>4, <2>5
<1>7. CASE UNCHANGED vars
  <2>1. UNCHANGED <<account, seller, book, minted, turnedAway>> /\ Unspent /\ pc' = pc /\ job' = job
    BY <1>7 DEF vars, Unspent
  <2>2. Moved({})
    BY <2>1 DEF Moved, Quiet
  <2>3. Alone'
    BY <1>1, <2>1 DEF Alone
  <2>4. CodesKept'
    BY <1>1, <2>1, <2>2, CodesFrame DEF Unspent
  <2>5. AccountsKept'
    BY <1>1, <2>1, <2>2, AccountsFrame DEF IsSeller
  <2>6. SellersKept' /\ BookKept'
    BY <1>1, <2>1, <2>2, SellersFrame, BookFrame
  <2>7. QED
    BY <2>3, <2>4, <2>5, <2>6
<1>8. QED
  BY <1>2, <1>3, <1>4, <1>5, <1>6, <1>7 DEF Next

IInv == Typed /\ ReasonMatchesStatus /\ SerialKept

LEMMA AlwaysIInv == Spec => []IInv
<1>1. Init => IInv
  BY TypedInit, SerialInit DEF IInv, Init, ReasonMatchesStatus, IsSeller
<1>2. IInv /\ [Next]_vars => IInv'
  BY TypedNext, ReasonsKept, SerialNext DEF IInv
<1>3. QED
  BY <1>1, <1>2, PTL DEF Spec

\* As long as handlers do not overlap, each of them finds what it read unchanged when it
\* goes on after an await, whichever handlers came before and wherever they broke off.
THEOREM SerialAccounts == Spec => [](Typed /\ SerialKept)
BY AlwaysIInv, PTL DEF IInv

\* When handlers do not overlap, the role of a registration is added to those the account
\* had, so its profiles, roles and guards agree, and nobody has two default shipping
\* addresses: what registerBuyer, registerSeller, reregisterSeller and both address
\* screens leave behind, also when they break off halfway.
THEOREM AccountsAgree == Spec => []ProfilesAgree
<1>1. ASSUME IInv PROVE ProfilesAgree
  <2>1. TypeOK /\ (serial => AccountsKept /\ BookKept)
    BY <1>1 DEF IInv, Typed, SerialKept
  <2>2. ASSUME serial, NEW u \in Users, Exists(u)
        PROVE  /\ AuthUserResponse(u) = [buyer |-> account[u].buyer, seller |-> seller[u].status]
               /\ IsSeller(u) /\ seller[u].status = "VERIFIED" => MaySell(u)
    <3>1. Roles(u) /\ account[u] \in Account
      BY <2>1, <2>2 DEF AccountsKept, TypeOK, Exists
    <3>2. (account[u].buyer /\ "BUYER" \in account[u].roles) = account[u].buyer
      BY <2>2, <3>1 DEF Roles, Account
    <3>3. (IF "SELLER" \in account[u].roles THEN seller[u].status ELSE "NONE") = seller[u].status
      BY <3>1 DEF Roles, IsSeller, NoSeller
    <3>4. IsSeller(u) /\ seller[u].status = "VERIFIED" => MaySell(u)
      BY <3>1 DEF Roles, MaySell
    <3>5. QED
      BY <3>2, <3>3, <3>4 DEF AuthUserResponse
  <2>3. RolesMatchProfiles
    BY <2>2 DEF RolesMatchProfiles
  <2>4. OneDefaultShipping
    BY <2>1 DEF OneDefaultShipping, BookKept, OneMark
  <2>5. QED
    BY <2>1, <2>3, <2>4 DEF ProfilesAgree
<1>2. QED
  BY <1>1, AlwaysIInv, PTL

\* When handlers do not overlap, verifyOtp accepts a code once, and the last code that
\* sendOtp or forgotPassword sent works until it is used or expires.
THEOREM CodesAreSpentOnce == Spec => []CodesWork
<1>1. ASSUME IInv PROVE CodesWork
  <2>1. TypeOK /\ (serial => CodesKept)
    BY <1>1 DEF IInv, Typed, SerialKept
  <2>2. \A c \in 1..sent : c \in 1..MaxCodes
    BY <2>1, AccountsAssumption DEF TypeOK
  <2>3. CodeSignsInOnce
    BY <2>1, <2>2 DEF CodeSignsInOnce, CodesKept
  <2>4. FreshCodeWorks
    BY <2>1 DEF FreshCodeWorks, CodesKept
  <2>5. QED
    BY <2>3, <2>4 DEF CodesWork
<1>2. QED
  BY <1>1, AlwaysIInv, PTL

\* check-email-exists and the look-ups of a registration: they disagree about an account
\* only when the case of its e-mail does.
LEMMA PrecheckHolds == TypeOK => PrecheckAgrees
<1>. SUFFICES ASSUME TypeOK, NEW p \in Phones, NEW e \in Emails,
                     CheckEmailExists(p, e) = "free", ~Registrable(p, e)
              PROVE  \E u \in Users : /\ Exists(u) /\ account[u].phone = p
                                      /\ account[u].email # e
                                      /\ Mailbox[account[u].email] = Mailbox[e]
  BY DEF PrecheckAgrees
<1>1. \A u \in Users : Exists(u) /\ account[u].phone = p => Mailbox[account[u].email] = Mailbox[e]
  BY DEF CheckEmailExists
<1>2. CASE \E u \in Users : Exists(u) /\ account[u].phone = p
  BY <1>1, <1>2 DEF Registrable
<1>3. CASE ~\E u \in Users : Exists(u) /\ account[u].phone = p
  <2>1. ~\E u \in Users : Exists(u) /\ Mailbox[account[u].email] = Mailbox[e]
    BY <1>3 DEF CheckEmailExists
  <2>2. \E u \in Users : Exists(u) /\ account[u].email = e
    BY <1>3 DEF Registrable
  <2>3. QED
    BY <2>1, <2>2
<1>4. QED
  BY <1>2, <1>3

\* A registration that was stored ends signed in when handlers do not overlap, and an
\* e-mail that the app was told is free is refused only for its case.
THEOREM RegistrationsEnd == Spec => []OnboardingEnds
<1>1. ASSUME IInv PROVE OnboardingEnds
  <2>1. TypeOK /\ (serial => AccountsKept)
    BY <1>1 DEF IInv, Typed, SerialKept
  <2>2. RegisteredSignsIn
    BY <2>1 DEF RegisteredSignsIn, AccountsKept, TurnedAwayFor
  <2>3. QED
    BY <2>1, <2>2, PrecheckHolds DEF OnboardingEnds
<1>2. QED
  BY <1>1, AlwaysIInv, PTL

-----------------------------------------------------------------------------
(***************************************************************************)
(* The review implements SellerVerification.                               *)
(***************************************************************************)
LEMMA FollowsInit == Init => Verification!Init
<1>. SUFFICES ASSUME Init PROVE Verification!Init
  OBVIOUS
<1>1. \A u \in Users : ~Followed(u)
  BY DEF Init, Followed, IsSeller
<1>2. QED
  BY <1>1 DEF Verification!Init, stageBar, shownBar, askedBar

\* What is seen of one seller's move.
LEMMA BarsMoved ==
    ASSUME TypeOK, serial, serial' = serial, NEW u \in Users, SellerMove(u)
    PROVE  /\ stageBar' = [stageBar EXCEPT ![u] = seller'[u].status]
           /\ shownBar' = [shownBar EXCEPT ![u] = seller'[u].reason]
           /\ askedBar' = [askedBar EXCEPT ![u] = seller'[u].asked]
           /\ IsSeller(u) => /\ stageBar[u] = seller[u].status /\ shownBar[u] = seller[u].reason
                             /\ askedBar[u] = seller[u].asked /\ stageBar[u] \in Status
           /\ askedBar[u] = IF IsSeller(u) THEN seller[u].asked ELSE "NONE"
<1>1. Followed(u)' /\ (Followed(u) <=> IsSeller(u))
  BY DEF Followed, SellerMove
<1>2. \A v \in Users \ {u} : (Followed(v)' <=> Followed(v)) /\ seller'[v] = seller[v]
  BY DEF Followed, SellerMove, IsSeller
<1>3. IsSeller(u) => seller[u].status \in Status
  BY DEF TypeOK, IsSeller, Seller
<1>4. stageBar' = [stageBar EXCEPT ![u] = seller'[u].status]
  BY <1>1, <1>2 DEF stageBar
<1>5. shownBar' = [shownBar EXCEPT ![u] = seller'[u].reason]
  BY <1>1, <1>2 DEF shownBar
<1>6. askedBar' = [askedBar EXCEPT ![u] = seller'[u].asked]
  BY <1>1, <1>2 DEF askedBar
<1>7. QED
  BY <1>1, <1>3, <1>4, <1>5, <1>6 DEF stageBar, shownBar, askedBar

LEMMA FollowsNext ==
    IInv /\ [Next]_vars => [Verification!Next]_<<stageBar, shownBar, askedBar>>
<1>. SUFFICES ASSUME IInv, [Next]_vars
              PROVE  Verification!Next \/ UNCHANGED <<stageBar, shownBar, askedBar>>
  OBVIOUS
<1>1. Typed /\ TypeOK /\ serial' = serial
  BY NextTyped DEF IInv, Typed, vars
<1>2. CASE seller' = seller \/ ~serial
  BY <1>1, <1>2 DEF stageBar, shownBar, askedBar, Followed, IsSeller
<1>3. ASSUME serial, NEW u \in Users, SellerMove(u)
      PROVE  Verification!Next \/ UNCHANGED <<stageBar, shownBar, askedBar>>
  <2>1. /\ stageBar' = [stageBar EXCEPT ![u] = seller'[u].status]
        /\ shownBar' = [shownBar EXCEPT ![u] = seller'[u].reason]
        /\ askedBar' = [askedBar EXCEPT ![u] = seller'[u].asked]
        /\ IsSeller(u) => /\ stageBar[u] = seller[u].status /\ shownBar[u] = seller[u].reason
                          /\ askedBar[u] = seller[u].asked /\ stageBar[u] \in Status
        /\ askedBar[u] = IF IsSeller(u) THEN seller[u].asked ELSE "NONE"
    BY <1>1, <1>3, BarsMoved
  <2>2. /\ stageBar = [v \in Users |-> stageBar[v]] /\ shownBar = [v \in Users |-> shownBar[v]]
        /\ askedBar = [v \in Users |-> askedBar[v]]
    BY DEF stageBar, shownBar, askedBar
  <2>3. askedBar[u] = seller'[u].asked => askedBar' = askedBar
    BY <2>1, <2>2
  <2>4. shownBar[u] = seller'[u].reason => shownBar' = shownBar
    BY <2>1, <2>2
  <2>5. stageBar[u] = seller'[u].status => stageBar' = stageBar
    BY <2>1, <2>2
  <2>6. CASE Applied(u)
    <3>1. Verification!Apply(u)
      BY <2>1, <2>3, <2>6 DEF Applied, Verification!Apply, Verification!Become
    <3>2. QED
      BY <3>1 DEF Verification!Next
  <2>7. CASE Cleared(u)
    <3>1. Verification!Reset(u)
      BY <2>1, <2>3, <2>7 DEF Cleared, Status, Verification!Reset, Verification!Become
    <3>2. QED
      BY <3>1 DEF Verification!Next
  <2>8. CASE Filled(u)
    BY <2>1, <2>3, <2>4, <2>5, <2>8 DEF Filled
  <2>9. ASSUME NEW r \in Slots, Of(r) = u, Decided(r)
        PROVE  Verification!Next
    <3>1. IsSeller(u) /\ pc[r] \in ReviewAt
      BY <2>9 DEF Decided, ReviewAt
    <3>2. KnowsSeller(r)
      BY <1>3 DEF IInv, SerialKept, SellersKept
    <3>3. /\ job[r].op # "resubmit" => stageBar[u] = job[r].seen /\ stageBar[u] \in MayDecide(job[r].op)
          /\ job[r].op = "resubmit" => stageBar[u] = "NEEDS_CHANGES"
      BY <2>1, <2>9, <3>1, <3>2 DEF KnowsSeller
    <3>4. CASE job[r].op = "approve"
      <4>1. Verification!Approve(u)
        BY <2>1, <2>3, <2>9, <3>1, <3>3, <3>4
           DEF Decided, MayDecide, Verification!Approve, Verification!Become
      <4>2. QED
        BY <4>1 DEF Verification!Next
    <3>5. CASE job[r].op = "reject"
      <4>1. Verification!Reject(u)
        BY <2>1, <2>3, <2>9, <3>1, <3>3, <3>5
           DEF Decided, MayDecide, Verification!Reject, Verification!Become
      <4>2. QED
        BY <4>1 DEF Verification!Next
    <3>6. CASE job[r].op = "requestChanges"
      <4>1. Verification!AskForChanges(u)
        BY <2>1, <2>4, <2>9, <3>1, <3>3, <3>6 DEF Decided, MayDecide, Verification!AskForChanges
      <4>2. QED
        BY <4>1 DEF Verification!Next
    <3>7. CASE job[r].op = "resubmit"
      <4>1. Verification!Resubmit(u)
        BY <2>1, <2>3, <2>9, <3>1, <3>3, <3>7
           DEF Decided, Verification!Resubmit, Verification!Become
      <4>2. QED
        BY <4>1 DEF Verification!Next
    <3>8. QED
      BY <2>9, <3>4, <3>5, <3>6, <3>7 DEF Decided
  <2>10. QED
    BY <1>3, <2>6, <2>7, <2>8, <2>9 DEF SellerMove
<1>4. QED
  BY <1>1, <1>2, <1>3, SellerMoves

\* When handlers do not overlap, registerSeller, approve, reject, requestChanges,
\* resubmitForReview and reregisterSeller take a seller only along the documented review.
\* However they overlap, a rejected seller has its reason, a verified one none, and one
\* asked for changes has the request on record.
THEOREM SellersFollowVerification == Spec => FollowsVerification
<1>1. IInv => ReasonMatchesStatus /\ ResetIsTold
  BY DEF IInv, SerialKept, SellersKept, ResetIsTold, Told
<1>2. QED
  BY <1>1, FollowsInit, FollowsNext, AlwaysIInv, PTL
     DEF Spec, Verification!Spec, FollowsVerification
=============================================================================
