----------------------------- MODULE MCAccounts -----------------------------
(***************************************************************************)
(* The instance of Accounts for TLC.  Codes, the review and the address    *)
(* book share the account's row only, so a behaviour explores one of them  *)
(* together with registration; where the contention for phones and e-mails *)
(* does not matter, everybody registers with the same ones.                *)
(***************************************************************************)
EXTENDS Accounts, TLC

CONSTANTS
    Other,          \* the e-mail that is not a spelling of the rest
    CodeCalls       \* bound on the handlers of a behaviour about codes

VARIABLE part       \* what the behaviour explores, fixed at the start

\* Two spellings of one mailbox, and another mailbox.
MCMailbox == [e \in Emails |-> IF e = Other THEN "other" ELSE "mailbox"]
Symmetry == Permutations(Users) \cup Permutations(Slots)

SamePhone == CHOOSE p \in Phones : TRUE
SameEmail == CHOOSE e \in Emails : TRUE
SamePassword == CHOOSE w \in Passwords : TRUE

RegisterOne ==
    \/ \E r \in Slots, kind \in Role : Register(r, kind, SamePhone, SameEmail, SamePassword)
    \/ \E r \in Slots : CommitRegistration(r) \/ LoginRegistered(r) \/ Fail(r)

MovePickup ==
    \/ \E r \in Slots, u \in Users : UpdatePickup(r, u)
    \/ \E r \in Slots : SavePickup(r) \/ SaveBusinessAddress(r)
    \/ \E u \in Users : \E i \in Ids(u) : DeleteAddress(u, i)

\* Phones and passwords are alike: the first registration takes these.
FirstIsSame ==
    (\A u \in Users : ~Exists(u)) /\ (\A r \in Slots : job[r].op # "register")
        => \A r \in Slots : job'[r].op = "register" =>
               job'[r].phone = SamePhone /\ job'[r].password = SamePassword

MCInit == Init /\ part \in {"codes", "review", "book"}

MCNext ==
    /\ \/ /\ part = "codes"
          /\ CodeSteps \/ RegistrationSteps \/ \E r \in Slots : Fail(r)
          /\ \A u \in Users : ~IsSeller(u)'
          /\ FirstIsSame
          /\ calls' <= CodeCalls
       \/ /\ part = "review"
          /\ ReviewSteps \/ RegisterOne \/ MovePickup
       \/ /\ part = "book"
          /\ BookSteps \/ RegisterOne \/ \E u \in Users : ReregisterSeller(u)
    /\ UNCHANGED part

MCSpec == MCInit /\ [][MCNext]_<<vars, part>>
=============================================================================
