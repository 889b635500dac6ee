------------------------------ MODULE Accounts ------------------------------
(***************************************************************************)
(* Accounts: one-time codes, registration of buyers and sellers on one     *)
(* phone number, the review of a seller by admins, and the address book    *)
(* that both of the account's profiles share (AuthService, SellersService, *)
(* BuyersService).                                                         *)
(*                                                                         *)
(* Handlers read a row, await and update it by id; what Prisma commits as  *)
(* one transaction is one step.  OTP_ENV is production: the bypass code of *)
(* testing is left out, and so are mails, SMS and push messages.           *)
(***************************************************************************)
EXTENDS Integers

CONSTANTS
    Users,          \* ids for rows of User
    NoUser,
    Phones,
    Emails,         \* e-mail addresses as they are typed
    Mailbox,        \* what an address is once its case is ignored
    Passwords,
    Slots,          \* requests that can be open at one time
    MaxCodes,       \* bound on the codes sent
    MaxAddresses,   \* bound on the addresses the buyer's app creates
    MaxCalls        \* bound on the handlers that await between two writes

ASSUME AccountsAssumption ==
    /\ NoUser \notin Users
    /\ DOMAIN Mailbox = Emails
    /\ MaxCodes \in Nat
    /\ MaxAddresses \in Nat
    /\ MaxCalls \in Nat

VARIABLES
    serial,         \* handlers never overlap, fixed at the start
    account,        \* User rows, NoAccount before they exist
    seller,         \* Seller rows
    book,           \* Address rows of each user
    minted,         \* addresses created so far; ids are in order of createdAt
    otp,            \* the code in Redis for each phone and purpose, 0 for none
    fresh,          \* the last code sent for it, until it is used or expires
    sent,           \* codes sent so far; each code is its number
    accepted,       \* how often a code was accepted as a sign-in
    sessions,       \* users holding a refresh token
    turnedAway,     \* users whose registration was stored but answered 401
    calls,          \* handlers opened so far
    pc, job         \* what each slot waits for, and its locals

codes == <<otp, fresh, sent, accepted>>
entry == <<sessions, turnedAway>>
slot == <<calls, pc, job>>
vars == <<serial, account, seller, book, minted, otp, fresh, sent, accepted,
          sessions, turnedAway, calls, pc, job>>

Keys == Phones \X {"otp", "reset"}
Role == {"BUYER", "SELLER"}
Status == {"PENDING", "VERIFIED", "REJECTED", "NEEDS_CHANGES"}
Reason == {"none", "rejected", "reset"}

\* What resubmitForReview wants filled in; categories are written by registration
\* only, the rest by the profile screens.
Profile == {"store", "bank", "signature", "categories"}

NoAccount == [roles |-> {}]
Account == [phone : Phones, email : Emails, password : Passwords,
            roles : SUBSET Role, buyer : BOOLEAN]
NoSeller == [status |-> "NONE"]
Seller == [status : Status, reason : Reason, missing : SUBSET Profile,
           asked : Status \cup {"NONE"}]
Address == [id : Nat, type : {"SHIPPING", "PICKUP"}, isDefault : BOOLEAN]

Exists(u) == account[u] # NoAccount
IsSeller(u) == seller[u] # NoSeller

\* authUserResponse: a profile is shown only to a user with the role.
AuthUserResponse(u) ==
    [buyer |-> account[u].buyer /\ "BUYER" \in account[u].roles,
     seller |-> IF "SELLER" \in account[u].roles THEN seller[u].status ELSE "NONE"]

\* RolesGuard and SellerVerifiedGuard of the selling routes.
MaySell(u) == "SELLER" \in account[u].roles /\ IsSeller(u) /\ seller[u].status = "VERIFIED"

\* RolesGuard of the seller's own screens, open before the review is over.
OwnsStore(u) == Exists(u) /\ "SELLER" \in account[u].roles /\ IsSeller(u)

Free == [op |-> "none"]
Steps == {"drop", "signIn", "password", "forget", "commit", "login", "write", "pickup",
          "clear", "save", "legacy"}
Jobs ==
    [op : {"verify"}, key : Keys, code : Nat]
    \cup [op : {"reset"}, key : Keys, user : Users, password : Passwords]
    \cup [op : {"register"}, kind : Role, phone : Phones, email : Emails,
          password : Passwords, user : Users \cup {NoUser}, roles : SUBSET Role]
    \cup [op : {"approve", "reject", "requestChanges", "resubmit"}, user : Users,
          seen : Status]
    \cup [op : {"create", "update", "updatePickup"}, user : Users, address : Nat]

Init ==
    /\ serial \in BOOLEAN
    /\ account = [u \in Users |-> NoAccount]
    /\ seller = [u \in Users |-> NoSeller]
    /\ book = [u \in Users |-> {}]
    /\ minted = 0
    /\ otp = [k \in Keys |-> 0]
    /\ fresh = [k \in Keys |-> 0]
    /\ sent = 0
    /\ accepted = [c \in 1..MaxCodes |-> 0]
    /\ sessions = {} /\ turnedAway = {}
    /\ calls = 0
    /\ pc = [r \in Slots |-> "idle"]
    /\ job = [r \in Slots |-> Free]

\* A request gets in while another one awaits, unless handlers never overlap.
Admitted == serial => \A q \in Slots : pc[q] = "idle"

Begin(r, at, locals) ==
    /\ pc[r] = "idle"
    /\ Admitted
    /\ calls < MaxCalls
    /\ calls' = calls + 1
    /\ pc' = [pc EXCEPT ![r] = at]
    /\ job' = [job EXCEPT ![r] = locals]

Goto(r, at) == pc' = [pc EXCEPT ![r] = at] /\ UNCHANGED <<calls, job>>

Close(r) ==
    /\ pc' = [pc EXCEPT ![r] = "idle"]
    /\ job' = [job EXCEPT ![r] = Free]
    /\ UNCHANGED calls

At(r, op, step) == pc[r] = step /\ job[r].op = op
Of(r) == job[r].user

\* A request that awaits once is a step of its own.
AtOnce == Admitted /\ UNCHANGED slot

OnlyCodes == UNCHANGED <<serial, account, seller, book, minted>>
OnlySeller == UNCHANGED <<serial, account, book, minted>> /\ UNCHANGED codes /\ UNCHANGED entry
OnlyBook == UNCHANGED <<serial, account, seller>> /\ UNCHANGED codes /\ UNCHANGED entry
OnlySlot == OnlyCodes /\ UNCHANGED codes /\ UNCHANGED entry

(***************************************************************************)
(* One-time codes.                                                         *)
(***************************************************************************)
\* sendOtp and forgotPassword: a new code replaces the one in Redis.
SendCode(k) ==
    /\ k[2] = "reset" => \E u \in Users : Exists(u) /\ account[u].phone = k[1]
    /\ sent < MaxCodes
    /\ sent' = sent + 1
    /\ otp' = [otp EXCEPT ![k] = sent + 1]
    /\ fresh' = [fresh EXCEPT ![k] = sent + 1]
    /\ AtOnce
    /\ OnlyCodes /\ UNCHANGED entry /\ UNCHANGED accepted

\* OTP_TTL_SECONDS are over.
CodeExpires(k) ==
    /\ otp[k] # 0
    /\ otp' = [otp EXCEPT ![k] = 0]
    /\ fresh' = [fresh EXCEPT ![k] = 0]
    /\ OnlyCodes /\ UNCHANGED entry /\ UNCHANGED slot /\ UNCHANGED <<sent, accepted>>

\* Mutation: the code is compared and left in Redis.
VerifyOtp_Keep(r, k, c) ==
    /\ k[2] = "otp"
    /\ otp[k] = c
    /\ Begin(r, "signIn", [op |-> "verify", key |-> k, code |-> c])
    /\ OnlySlot

\* verifyOtp reads the code; another one than c is refused.
VerifyOtp(r, k, c) ==
    /\ k[2] = "otp"
    /\ otp[k] = c
    /\ Begin(r, "drop", [op |-> "verify", key |-> k, code |-> c])
    /\ OnlySlot

\* It deletes the key, whatever code it holds by now.
DropCode(r) ==
    /\ At(r, "verify", "drop")
    /\ otp' = [otp EXCEPT ![job[r].key] = 0]
    /\ fresh' = [fresh EXCEPT ![job[r].key] = IF @ = job[r].code THEN 0 ELSE @]
    /\ Goto(r, "signIn")
    /\ OnlyCodes /\ UNCHANGED entry /\ UNCHANGED <<sent, accepted>>

\* It signs the user of that phone in, or answers isNewUser.
SignIn(r) ==
    /\ At(r, "verify", "signIn")
    /\ accepted' = [accepted EXCEPT ![job[r].code] = @ + 1]
    /\ sessions' = sessions \cup {u \in Users : Exists(u) /\ account[u].phone = job[r].key[1]}
    /\ Close(r)
    /\ OnlyCodes /\ UNCHANGED <<otp, fresh, sent, turnedAway>>

\* resetPassword checks the code, finds the user and refuses the password in use.
ResetPassword(r, u, c, w) ==
    /\ Exists(u)
    /\ c # 0 /\ otp[<<account[u].phone, "reset">>] = c
    /\ account[u].password # w
    /\ Begin(r, "password", [op |-> "reset", key |-> <<account[u].phone, "reset">>,
                             user |-> u, password |-> w])
    /\ OnlySlot

WritePassword(r) ==
    /\ At(r, "reset", "password")
    /\ account' = [account EXCEPT ![Of(r)].password = job[r].password]
    /\ fresh' = [fresh EXCEPT ![job[r].key] = 0]
    /\ Goto(r, "forget")
    /\ UNCHANGED <<serial, seller, book, minted, otp, sent, accepted>> /\ UNCHANGED entry

\* "Delete OTP only after password update succeeds".
ForgetCode(r) ==
    /\ At(r, "reset", "forget")
    /\ otp' = [otp EXCEPT ![job[r].key] = 0]
    /\ Close(r)
    /\ OnlyCodes /\ UNCHANGED entry /\ UNCHANGED <<fresh, sent, accepted>>

(***************************************************************************)
(* Registration and login.                                                 *)
(***************************************************************************)
\* login by phone or by e-mail with the right password.
Login(u) ==
    /\ Exists(u)
    /\ sessions' = sessions \cup {u}
    /\ AtOnce
    /\ OnlyCodes /\ UNCHANGED codes /\ UNCHANGED turnedAway

\* REFRESH_TTL_SECONDS are over.
SessionExpires(u) ==
    /\ u \in sessions
    /\ sessions' = sessions \ {u}
    /\ OnlyCodes /\ UNCHANGED codes /\ UNCHANGED slot /\ UNCHANGED turnedAway

\* What a new registration may not collide with: the phone decides which account
\* is meant, and its e-mail has to be the one given.
Registrable(p, e) ==
    /\ \A u \in Users : Exists(u) /\ account[u].phone = p => account[u].email = e
    /\ (\E u \in Users : Exists(u) /\ account[u].email = e)
          => \E u \in Users : Exists(u) /\ account[u].phone = p

\* What the app asks before the long sign-up: case is ignored.
CheckEmailExists(p, e) ==
    IF \E u \in Users : Exists(u) /\ account[u].phone = p /\ Mailbox[account[u].email] # Mailbox[e]
    THEN "conflict"
    ELSE IF \E u \in Users : Exists(u) /\ account[u].phone = p THEN "free"
    ELSE IF \E u \in Users : Exists(u) /\ Mailbox[account[u].email] = Mailbox[e] THEN "exists"
    ELSE "free"

\* The look-ups of registerBuyer and registerSeller.
Register(r, kind, p, e, w) ==
    /\ Registrable(p, e)
    /\ LET same == {u \in Users : Exists(u) /\ account[u].phone = p}
           of == IF same = {} THEN NoUser ELSE CHOOSE u \in same : TRUE
       IN  Begin(r, "commit", [op |-> "register", kind |-> kind, phone |-> p, email |-> e,
                               password |-> w, user |-> of,
                               roles |-> IF of = NoUser THEN {} ELSE account[of].roles])
    /\ OnlySlot

\* Mutation: the role of this registration replaces those the account had.
CommitUser_SetRole(r, u) ==
    IF Of(r) # NoUser
    THEN u = Of(r) /\ account' = [account EXCEPT ![u].password = job[r].password,
                                                 ![u].roles = {job[r].kind},
                                                 ![u].buyer = @ \/ job[r].kind = "BUYER"]
    ELSE /\ ~Exists(u)
         /\ account' = [account EXCEPT ![u] =
                [phone |-> job[r].phone, email |-> job[r].email, password |-> job[r].password,
                 roles |-> {job[r].kind}, buyer |-> job[r].kind = "BUYER"]]

\* Mutation: an account that exists keeps its password.
CommitUser_KeepPassword(r, u) ==
    IF Of(r) # NoUser
    THEN u = Of(r) /\ account' = [account EXCEPT ![u].roles = job[r].roles \cup {job[r].kind},
                                                 ![u].buyer = @ \/ job[r].kind = "BUYER"]
    ELSE /\ ~Exists(u)
         /\ account' = [account EXCEPT ![u] =
                [phone |-> job[r].phone, email |-> job[r].email, password |-> job[r].password,
                 roles |-> {job[r].kind}, buyer |-> job[r].kind = "BUYER"]]

\* The account's row after the transaction: its roles are those read before it
\* began, with the new one.
CommitUser(r, u) ==
    IF Of(r) # NoUser
    THEN u = Of(r) /\ account' = [account EXCEPT ![u].password = job[r].password,
                                                 ![u].roles = job[r].roles \cup {job[r].kind},
                                                 ![u].buyer = @ \/ job[r].kind = "BUYER"]
    ELSE /\ ~Exists(u)
         /\ account' = [account EXCEPT ![u] =
                [phone |-> job[r].phone, email |-> job[r].email, password |-> job[r].password,
                 roles |-> {job[r].kind}, buyer |-> job[r].kind = "BUYER"]]

Ids(u) == {a.id : a \in book[u]}

\* A new address, the newest of the user's.
Insert(u, kept, type, mark) ==
    /\ book' = [book EXCEPT ![u] = kept \cup {[id |-> minted + 1, type |-> type, isDefault |-> mark]}]
    /\ minted' = minted + 1

\* A seller's own transaction also writes the profile and the categories, and puts
\* the application back under review.
CommitSeller(u) ==
    /\ seller' = [seller EXCEPT ![u] =
            [status |-> "PENDING", reason |-> "none",
             missing |-> IF IsSeller(u) THEN seller[u].missing \cap {"signature"} ELSE {"signature"},
             asked |-> IF IsSeller(u) THEN seller[u].asked ELSE "NONE"]]
    /\ Insert(u, {IF a.type = "PICKUP" THEN [a EXCEPT !.isDefault = FALSE] ELSE a : a \in book[u]},
              "PICKUP", TRUE)

\* The unique indexes on phone and e-mail refuse a second row.
Unique(r) ==
    Of(r) = NoUser => \A u \in Users : Exists(u) =>
        account[u].phone # job[r].phone /\ account[u].email # job[r].email

\* The transaction; a violated index ends the handler (Fail).
CommitRegistration(r) ==
    /\ At(r, "register", "commit")
    /\ Unique(r)
    /\ \E u \in Users :
          /\ CommitUser(r, u)
          /\ IF job[r].kind = "SELLER" THEN CommitSeller(u) ELSE UNCHANGED <<seller, book, minted>>
          /\ job' = [job EXCEPT ![r].user = u]
    /\ pc' = [pc EXCEPT ![r] = "login"]
    /\ UNCHANGED <<serial, calls>> /\ UNCHANGED codes /\ UNCHANGED entry

\* "Login immediately": login by e-mail takes the first row of the mailbox and
\* compares the password.
LoginRegistered(r) ==
    /\ At(r, "register", "login")
    /\ \E u \in Users :
          /\ Exists(u) /\ Mailbox[account[u].email] = Mailbox[job[r].email]
          /\ IF account[u].password = job[r].password
             THEN sessions' = sessions \cup {u} /\ UNCHANGED turnedAway
             ELSE turnedAway' = turnedAway \cup {Of(r)} /\ UNCHANGED sessions
    /\ Close(r)
    /\ OnlyCodes /\ UNCHANGED codes

(***************************************************************************)
(* The review of a seller.                                                 *)
(***************************************************************************)
\* Mutation: a rejected seller may be asked for changes.
MayDecide_AskRejected(op) ==
    IF op = "approve" THEN {"PENDING", "REJECTED", "NEEDS_CHANGES"}
    ELSE IF op = "requestChanges" THEN Status
    ELSE {"PENDING", "VERIFIED", "NEEDS_CHANGES"}

\* The statuses from which approve, reject and requestChanges go on.
MayDecide(op) ==
    IF op = "approve" THEN {"PENDING", "REJECTED", "NEEDS_CHANGES"}
    ELSE {"PENDING", "VERIFIED", "NEEDS_CHANGES"}

\* approve, reject or requestChanges reads the seller and checks its status.
ReviewSeller(r, u, op) ==
    /\ IsSeller(u)
    /\ seller[u].status \in MayDecide(op)
    /\ Begin(r, "write", [op |-> op, user |-> u, seen |-> seller[u].status])
    /\ OnlySlot

WriteSeller(r, s) ==
    /\ seller' = [seller EXCEPT ![Of(r)] = s]
    /\ Close(r)
    /\ OnlySeller

\* approve writes by id.
WriteApproval(r) ==
    /\ At(r, "approve", "write")
    /\ WriteSeller(r, [seller[Of(r)] EXCEPT !.status = "VERIFIED", !.reason = "none"])

\* reject writes by id.
WriteRejection(r) ==
    /\ At(r, "reject", "write")
    /\ WriteSeller(r, [seller[Of(r)] EXCEPT !.status = "REJECTED", !.reason = "rejected"])

\* requestChanges writes the status and the SellerChangeRequest in one transaction;
\* statusAtCreation is what it read.
WriteChanges(r) ==
    /\ At(r, "requestChanges", "write")
    /\ WriteSeller(r, [seller[Of(r)] EXCEPT !.status = "NEEDS_CHANGES", !.asked = job[r].seen])

\* resubmitForReview reads the profile, then the pickup address, then writes.
Resubmit(r, u) ==
    /\ OwnsStore(u)
    /\ seller[u].status = "NEEDS_CHANGES"
    /\ seller[u].missing = {}
    /\ Begin(r, "pickup", [op |-> "resubmit", user |-> u, seen |-> "NEEDS_CHANGES"])
    /\ OnlySlot

FindPickup(r) ==
    /\ At(r, "resubmit", "pickup")
    /\ \E a \in book[Of(r)] : a.type = "PICKUP"
    /\ Goto(r, "write")
    /\ OnlySlot

WriteResubmission(r) ==
    /\ At(r, "resubmit", "write")
    /\ WriteSeller(r, [seller[Of(r)] EXCEPT !.status = "PENDING", !.reason = "none"])

\* reregisterSeller clears the onboarding data of a seller, whatever its status.
ReregisterSeller(u) ==
    /\ IsSeller(u)
    /\ seller' = [seller EXCEPT ![u].status = "PENDING", ![u].reason = "reset",
                                ![u].missing = Profile]
    /\ book' = [book EXCEPT ![u] = {a \in @ : a.type # "PICKUP"}]
    /\ AtOnce
    /\ UNCHANGED <<serial, account, minted>> /\ UNCHANGED codes /\ UNCHANGED entry

\* The profile screens write the fields given, which may be blank.
Fill(u, s, blank) ==
    /\ OwnsStore(u)
    /\ seller' = [seller EXCEPT ![u].missing = IF blank THEN @ \cup {s} ELSE @ \ {s}]
    /\ AtOnce
    /\ OnlySeller

UpdateStoreDetails(u, blank) == Fill(u, "store", blank)
UpdateBankDetails(u, blank) == Fill(u, "bank", blank)
UpdateSignature(u, blank) == Fill(u, "signature", blank)

\* updateProfile takes two of the bank's fields: it can blank them, not complete them.
UpdateProfile(u) == Fill(u, "bank", TRUE)

(***************************************************************************)
(* The address book.                                                       *)
(***************************************************************************)
\* The newest pickup address; 0 if there is none.
Newest(u) ==
    LET ids == {a.id : a \in {b \in book[u] : b.type = "PICKUP"}}
    IN  IF ids = {} THEN {0} ELSE {i \in ids : \A j \in ids : j <= i}

\* updatePickupAddress looks for it.
UpdatePickup(r, u) ==
    /\ OwnsStore(u)
    /\ \E i \in Newest(u) : Begin(r, "save", [op |-> "updatePickup", user |-> u, address |-> i])
    /\ OnlySlot

Marked(u, i) == {IF a.id = i THEN [a EXCEPT !.isDefault = TRUE] ELSE a : a \in book[u]}

\* It writes that address, if it is still there, or creates one.
SavePickup(r) ==
    /\ At(r, "updatePickup", "save")
    /\ LET u == Of(r)
           i == job[r].address
       IN  IF i = 0 THEN Insert(u, book[u], "PICKUP", TRUE)
           ELSE /\ i \in Ids(u)
                /\ book' = [book EXCEPT ![u] = Marked(u, i)]
                /\ UNCHANGED minted
    /\ Goto(r, "legacy")
    /\ OnlyBook

\* "keep Seller.businessAddress in sync".
SaveBusinessAddress(r) ==
    /\ At(r, "updatePickup", "legacy")
    /\ WriteSeller(r, [seller[Of(r)] EXCEPT !.missing = @ \ {"store"}])

\* createAddress without the default mark is one insert.
CreateAddress(u) ==
    /\ Exists(u)
    /\ minted < MaxAddresses
    /\ Insert(u, book[u], "SHIPPING", FALSE)
    /\ AtOnce
    /\ OnlyBook

\* With the mark, every address of the user is cleared first.
CreateDefaultAddress(r, u) ==
    /\ Exists(u)
    /\ minted < MaxAddresses
    /\ book' = [book EXCEPT ![u] = {[a EXCEPT !.isDefault = FALSE] : a \in @}]
    /\ UNCHANGED minted
    /\ Begin(r, "save", [op |-> "create", user |-> u, address |-> 0])
    /\ OnlyBook

SaveNewDefault(r) ==
    /\ At(r, "create", "save")
    /\ Insert(Of(r), book[Of(r)], "SHIPPING", TRUE)
    /\ Close(r)
    /\ OnlyBook

\* updateAddress with the mark: the others are cleared, then the row is written.
MakeDefault(r, u, i) ==
    /\ i \in Ids(u)
    /\ book' = [book EXCEPT ![u] = {IF a.id = i THEN a ELSE [a EXCEPT !.isDefault = FALSE] : a \in @}]
    /\ UNCHANGED minted
    /\ Begin(r, "save", [op |-> "update", user |-> u, address |-> i])
    /\ OnlyBook

SaveDefault(r) ==
    /\ At(r, "update", "save")
    /\ job[r].address \in Ids(Of(r))
    /\ book' = [book EXCEPT ![Of(r)] = Marked(Of(r), job[r].address)]
    /\ UNCHANGED minted
    /\ Close(r)
    /\ OnlyBook

\* updateAddress that takes the mark away.
DropDefault(u, i) ==
    /\ \E a \in book[u] : a.id = i /\ a.isDefault
    /\ book' = [book EXCEPT ![u] = {IF a.id = i THEN [a EXCEPT !.isDefault = FALSE] ELSE a : a \in @}]
    /\ UNCHANGED minted
    /\ AtOnce
    /\ OnlyBook

\* deleteAddress of the buyer's app: any address of the user, pickup ones too.
DeleteAddress(u, i) ==
    /\ i \in Ids(u)
    /\ book' = [book EXCEPT ![u] = {a \in @ : a.id # i}]
    /\ UNCHANGED minted
    /\ AtOnce
    /\ OnlyBook

\* An await is rejected, a row is gone or refused, or the process ends: the handler
\* does nothing more.
Fail(r) ==
    /\ pc[r] # "idle"
    /\ Close(r)
    /\ OnlySlot

CodeSteps ==
    \/ \E k \in Keys : SendCode(k) \/ CodeExpires(k)
    \/ \E r \in Slots, k \in Keys, c \in 1..sent : VerifyOtp(r, k, c)
    \/ \E r \in Slots, u \in Users, c \in 1..sent, w \in Passwords : ResetPassword(r, u, c, w)
    \/ \E r \in Slots : DropCode(r) \/ SignIn(r) \/ WritePassword(r) \/ ForgetCode(r)

RegistrationSteps ==
    \/ \E u \in Users : Login(u) \/ SessionExpires(u)
    \/ \E r \in Slots, kind \in Role, p \in Phones, e \in Emails, w \in Passwords :
          Register(r, kind, p, e, w)
    \/ \E r \in Slots : CommitRegistration(r) \/ LoginRegistered(r)

ReviewSteps ==
    \/ \E r \in Slots, u \in Users :
          \/ \E op \in {"approve", "reject", "requestChanges"} : ReviewSeller(r, u, op)
          \/ Resubmit(r, u)
    \/ \E r \in Slots : \/ WriteApproval(r) \/ WriteRejection(r) \/ WriteChanges(r)
                        \/ FindPickup(r) \/ WriteResubmission(r)
    \/ \E u \in Users : \/ ReregisterSeller(u)
                        \/ UpdateProfile(u)
                        \/ \E blank \in BOOLEAN : \/ UpdateStoreDetails(u, blank)
                                                 \/ UpdateBankDetails(u, blank)
                                                 \/ UpdateSignature(u, blank)

BookSteps ==
    \/ \E r \in Slots, u \in Users : \/ UpdatePickup(r, u) \/ CreateDefaultAddress(r, u)
                                     \/ \E i \in Ids(u) : MakeDefault(r, u, i)
    \/ \E r \in Slots : SavePickup(r) \/ SaveBusinessAddress(r) \/ SaveNewDefault(r) \/ SaveDefault(r)
    \/ \E u \in Users : CreateAddress(u) \/ \E i \in Ids(u) : DropDefault(u, i) \/ DeleteAddress(u, i)

Next ==
    \/ CodeSteps \/ RegistrationSteps \/ ReviewSteps \/ BookSteps
    \/ \E r \in Slots : Fail(r)

Spec == Init /\ [][Next]_vars

(***************************************************************************)
(* Properties.                                                             *)
(***************************************************************************)
\* Type invariant of every variable.
TypeOK ==
    /\ serial \in BOOLEAN
    /\ account \in [Users -> Account \cup {NoAccount}]
    /\ seller \in [Users -> Seller \cup {NoSeller}]
    /\ book \in [Users -> SUBSET Address]
    /\ minted \in Nat
    /\ otp \in [Keys -> 0..MaxCodes] /\ fresh \in [Keys -> 0..MaxCodes]
    /\ sent \in 0..MaxCodes
    /\ accepted \in [1..MaxCodes -> Nat]
    /\ sessions \subseteq Users /\ turnedAway \subseteq Users
    /\ calls \in 0..MaxCalls
    /\ pc \in [Slots -> {"idle"} \cup Steps]
    /\ job \in [Slots -> Jobs \cup {Free}]
    /\ \A r \in Slots : pc[r] # "idle" => job[r] \in Jobs
    /\ \A u \in Users : IsSeller(u) => Exists(u)

\* When handlers do not overlap, registering a second profile on a phone number
\* never costs it the first: authUserResponse, the guards and the profiles agree
\* (the roles written are those read before the transaction).
RolesMatchProfiles ==
    serial => \A u \in Users : Exists(u) =>
        /\ AuthUserResponse(u) = [buyer |-> account[u].buyer, seller |-> seller[u].status]
        /\ IsSeller(u) /\ seller[u].status = "VERIFIED" => MaySell(u)

\* When handlers do not overlap, a code signs in once, however often it is sent in
\* (verifyOtp reads the code, and deletes it in a second command).
CodeSignsInOnce == serial => \A c \in 1..sent : accepted[c] <= 1

\* When handlers do not overlap, the last code sent works until it is used or
\* expires, also after an attempt that was refused or broke off.
FreshCodeWorks == serial => \A k \in Keys : fresh[k] # 0 => otp[k] = fresh[k]

\* A code is good for one sign-in, and for one only.
CodesWork == CodeSignsInOnce /\ FreshCodeWorks

\* When handlers do not overlap, a registration that was stored ends signed in,
\* unless another account has the same e-mail in a different case (the look-ups of
\* a registration compare it exactly, login does not).
RegisteredSignsIn ==
    serial => \A u \in turnedAway : \E v \in Users \ {u} :
        Exists(v) /\ Mailbox[account[v].email] = Mailbox[account[u].email]

\* "catch phone/email mismatch before the long onboarding flow": an e-mail the app was
\* told is free for this phone is refused by the registration only when the account
\* has it in a different case.
PrecheckAgrees ==
    \A p \in Phones, e \in Emails :
        CheckEmailExists(p, e) = "free" /\ ~Registrable(p, e) =>
            \E u \in Users : /\ Exists(u) /\ account[u].phone = p
                            /\ account[u].email # e /\ Mailbox[account[u].email] = Mailbox[e]

\* Who was let through the onboarding can register and sign in.
OnboardingEnds == RegisteredSignsIn /\ PrecheckAgrees

\* However decisions and resubmissions overlap, a rejected seller has a reason and
\* a verified one shows none; a seller asked for changes has the request on record.
ReasonMatchesStatus ==
    \A u \in Users : IsSeller(u) =>
        /\ seller[u].status = "REJECTED" => seller[u].reason = "rejected"
        /\ seller[u].status = "VERIFIED" => seller[u].reason = "none"
        /\ seller[u].status = "NEEDS_CHANGES" => seller[u].asked # "NONE"

\* When handlers do not overlap, a seller under review whose registration was
\* cleared is told so until someone decides (categories are written by a
\* registration only, so nothing else can fill the gap).
ResetIsTold ==
    serial => \A u \in Users :
        IsSeller(u) /\ seller[u].status = "PENDING" /\ "categories" \in seller[u].missing
            => seller[u].reason = "reset"

\* When handlers do not overlap, a user has at most one default shipping address.
OneDefaultShipping ==
    serial => \A u \in Users : \A a, b \in book[u] :
        a.type = "SHIPPING" /\ b.type = "SHIPPING" /\ a.isDefault /\ b.isDefault => a = b

\* The tables of an account agree: types, roles and profiles, addresses and their mark.
ProfilesAgree == TypeOK /\ RolesMatchProfiles /\ OneDefaultShipping

\* When handlers do not overlap, the review of a seller is the one documented: the
\* service implements SellerVerification.
Followed(u) == serial /\ IsSeller(u)
stageBar == [u \in Users |-> IF Followed(u) THEN seller[u].status ELSE "NONE"]
shownBar == [u \in Users |-> IF Followed(u) THEN seller[u].reason ELSE "none"]
askedBar == [u \in Users |-> IF Followed(u) THEN seller[u].asked ELSE "NONE"]

Verification == INSTANCE SellerVerification
    WITH Sellers <- Users, stage <- stageBar, shown <- shownBar, asked <- askedBar

FollowsVerification == Verification!Spec /\ [](ReasonMatchesStatus /\ ResetIsTold)
=============================================================================
