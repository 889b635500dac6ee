------------------------------- MODULE Mailing -------------------------------
(***************************************************************************)
(* Who is mailed, over what, and what the caller is told about it:         *)
(* MailService and the services that mail on their own (seller outreach,   *)
(* order mails, seller registrations, support, reports, backups, batches   *)
(* to sellers), the welcome mail and the SMS of a code.                    *)
(*                                                                         *)
(* A mail is told apart by the operation that sends it and by whom it is   *)
(* for.  A handler sends one mail at a time.                               *)
(***************************************************************************)
EXTENDS Naturals, FiniteSets, Sequences, SequencesExt

CONSTANTS
    Slots,          \* handlers that can be open at one time
    MaxCalls,       \* bound on the calls
    MaxRestarts     \* bound on the restarts and the ends of the dedupe window

MailAssumption == MaxCalls \in Nat /\ MaxRestarts \in Nat

VARIABLES
    serial,         \* sends succeed and pg_dump's exit is seen in time, fixed at the start
    have,           \* what the server has: mail transports, an SMS key, pg_dump
    inbox,          \* history: how often each mail was delivered
    recent,         \* the in-memory record of an "I'm Interested" click
    tickets,        \* SupportTicket rows
    answer,         \* the last answer of each operation, and what its call delivered
    mailed,         \* history: the kinds of dumps that went out
    calls,          \* history: calls of each operation
    asked,          \* history: how often the batches that are no dry runs listed each address
    restarts, pc, job

slot == <<pc, job>>
vars == <<serial, have, inbox, recent, tickets, answer, mailed, calls, asked, restarts, slot>>

\* Whom each operation mails, in order.
Mails == [interest |-> <<"team", "seller">>, order |-> <<"buyer", "seller">>,
          application |-> <<"team">>, feedback |-> <<"manager">>, concern |-> <<"contact">>,
          users |-> <<"team">>, backup |-> <<"team">>,
          welcome |-> <<"user">>, code |-> <<"phone">>]
\* The recipients of a batch are those of the request, which may name one twice.
Batches == {<<"one", "two">>, <<"one", "one">>}
Operations == DOMAIN Mails \cup {"batch"}
Equipment == {"resend", "smtp", "sms", "pg_dump"}
Addresses == {"team", "seller", "buyer", "manager", "contact", "one", "two", "user", "phone"}
Free == [op |-> "none"]
Says == {"nothing", "onfile", "sent", "unsent", "error"}
NoAnswer == [says |-> "nothing", got |-> {}, failed |-> {}, sent |-> 0, out |-> 0, dry |-> FALSE]

Init ==
    /\ serial \in BOOLEAN
    /\ have \in SUBSET Equipment
    /\ inbox = [op \in Operations |-> [a \in Addresses |-> 0]]
    /\ recent = FALSE /\ tickets = 0 /\ mailed = {}
    /\ answer = [op \in Operations |-> NoAnswer]
    /\ calls = [op \in Operations |-> 0]
    /\ asked = [a \in Addresses |-> 0]
    /\ restarts = 0
    /\ pc = [r \in Slots |-> "idle"]
    /\ job = [r \in Slots |-> Free]

Total(count) == FoldFunction(LAMBDA n, sum : n + sum, 0, count)
Called(op) ==
    /\ Total(calls) < MaxCalls
    /\ calls' = [calls EXCEPT ![op] = @ + 1]
\* What is counted as sent and what went out are told apart.
NewJob(op, list, dry) ==
    [op |-> op, left |-> list, got |-> {}, failed |-> {}, sent |-> 0, out |-> 0,
     dry |-> dry, file |-> "none"]
Begin(r, op, step, list, dry) ==
    /\ pc[r] = "idle"
    /\ Called(op)
    /\ pc' = [pc EXCEPT ![r] = step]
    /\ job' = [job EXCEPT ![r] = NewJob(op, list, dry)]
Keep(r, step, j) == pc' = [pc EXCEPT ![r] = step] /\ job' = [job EXCEPT ![r] = j]

\* The handler answers; the file of a backup goes with it.
End(r, j, says) ==
    /\ Keep(r, "idle", Free)
    /\ answer' = [answer EXCEPT ![j.op] =
                    [says |-> says, got |-> j.got, failed |-> j.failed, sent |-> j.sent,
                     out |-> j.out, dry |-> j.dry]]

-----------------------------------------------------------------------------
(***************************************************************************)
(* The operations.                                                         *)
(***************************************************************************)
Click(r) ==
    IF recent
    THEN /\ Called("interest")
         /\ answer' = [answer EXCEPT !.interest = [NoAnswer EXCEPT !.says = "onfile"]]
         /\ UNCHANGED slot
    ELSE Begin(r, "interest", "mail", Mails.interest, FALSE) /\ UNCHANGED answer

\* The click is kept on file by shouldNotify before the mails go out.
HandleInterestClick(r) ==
    /\ Click(r)
    /\ recent' = TRUE
    /\ UNCHANGED <<serial, have, inbox, tickets, mailed, asked, restarts>>

OnlyBegins(r, op, step) ==
    /\ Begin(r, op, step, Mails[op], FALSE)
    /\ UNCHANGED <<serial, have, inbox, recent, tickets, answer, mailed, asked, restarts>>
SendOrderPlacedEmails(r) == OnlyBegins(r, "order", "mail")
NotifyNewSellerApplication(r) == OnlyBegins(r, "application", "mail")
SendWelcomeEmail(r) == OnlyBegins(r, "welcome", "mail")
SendOtpSms(r) == OnlyBegins(r, "code", "mail")
SubmitAppFeedback(r) == OnlyBegins(r, "feedback", "ticket")
SubmitConcern(r) == OnlyBegins(r, "concern", "ticket")
SendDailyUsersReport(r) == OnlyBegins(r, "users", "mail")
RunDailyBackup(r) == OnlyBegins(r, "backup", "dump")

Times(a, list) == Cardinality({i \in DOMAIN list : list[i] = a})

\* Nothing is taken out of the list of the request.
SendBatch(r) ==
    \E list \in Batches, dry \in BOOLEAN :
        /\ Begin(r, "batch", "mail", list, dry)
        /\ asked' = IF dry THEN asked ELSE [a \in Addresses |-> asked[a] + Times(a, list)]
        /\ UNCHANGED <<serial, have, inbox, recent, tickets, answer, mailed, restarts>>

\* reportIssue: a row, and nobody is mailed.
ReportIssue ==
    /\ Called("concern")
    /\ tickets' = tickets + 1
    /\ UNCHANGED <<serial, have, inbox, recent, answer, mailed, asked, restarts, slot>>

\* The ticket is a row before anybody is mailed; without an address nobody is.
SaveTicket(r) ==
    /\ pc[r] = "ticket"
    /\ \/ /\ tickets' = tickets + 1
          /\ \/ Keep(r, "lookup", job[r]) /\ UNCHANGED answer
             \/ End(r, job[r], "unsent")
       \/ ~serial /\ End(r, job[r], "error") /\ UNCHANGED tickets
    /\ UNCHANGED <<serial, have, inbox, recent, mailed, calls, asked, restarts>>

\* The user is looked up outside the try: the call fails although the ticket is saved.
LookUpUser(r) ==
    /\ pc[r] = "lookup"
    /\ \/ Keep(r, "mail", job[r]) /\ UNCHANGED answer
       \/ ~serial /\ End(r, job[r], "error")
    /\ UNCHANGED <<serial, have, inbox, recent, tickets, mailed, calls, asked, restarts>>

\* The file is complete when the pipe has ended, whether pg_dump ended well or not, and its
\* exit code counts only if it is seen before that.
DumpToGzipFile(r) ==
    /\ pc[r] = "dump"
    /\ \/ "pg_dump" \in have /\ UNCHANGED answer
          /\ \/ Keep(r, "mail", [job[r] EXCEPT !.file = "whole"])
             \/ ~serial /\ Keep(r, "mail", [job[r] EXCEPT !.file = "partial"])
       \/ End(r, job[r], "error")
    /\ UNCHANGED <<serial, have, inbox, recent, tickets, mailed, calls, asked, restarts>>

-----------------------------------------------------------------------------
(***************************************************************************)
(* One mail.                                                               *)
(***************************************************************************)
\* Resend where it has a key, and SMTP otherwise.
First(wanted) ==
    IF "resend" \in wanted THEN "resend" ELSE IF "smtp" \in wanted THEN "smtp" ELSE "none"

\* Only the registration of a seller tries SMTP after Resend has failed; a batch knows
\* Resend alone.
Transport(j) ==
    CASE j.op = "code" -> IF "sms" \in have THEN "sms" ELSE "none"
      [] j.op = "batch" -> First(have \ {"smtp"})
      [] j.op = "application" -> First(have \ j.failed)
      [] OTHER -> First(have)

More(r, j) == Keep(r, "mail", j) /\ UNCHANGED answer

Succeeded(r, j) ==
    LET done == [j EXCEPT !.left = Tail(@), !.sent = @ + 1] IN
    IF done.left # <<>> THEN More(r, done) ELSE End(r, done, "sent")

\* Mutation: the registration of a seller gives up after Resend has failed.
Thrown_NoFallback(r, j, t) ==
    LET tried == [j EXCEPT !.failed = @ \cup {t}] IN
    IF j.op = "batch" /\ Len(j.left) > 1 THEN More(r, [tried EXCEPT !.left = Tail(@)])
    ELSE End(r, tried, "unsent")

\* Where a send throws, the registration of a seller is sent over what is left, a batch goes
\* on with the next recipient, and any other operation leaves out the rest of its mails.
Thrown(r, j, t) ==
    LET tried == [j EXCEPT !.failed = @ \cup {t}] IN
    CASE j.op = "application" /\ Transport(tried) # "none" -> More(r, tried)
      [] j.op = "batch" /\ Len(j.left) > 1 -> More(r, [tried EXCEPT !.left = Tail(@)])
      [] OTHER -> End(r, tried, IF j.op = "batch" THEN "sent" ELSE "unsent")

\* The mail arrives, and the answer that says so may be lost.
Deliver(r) ==
    LET j == job[r]
        t == Transport(j)
        arrived == [j EXCEPT !.got = @ \cup {Head(j.left)}, !.out = @ + 1]
    IN  /\ pc[r] = "mail" /\ t # "none" /\ ~j.dry
        /\ inbox' = [inbox EXCEPT ![j.op][Head(j.left)] = @ + 1]
        /\ mailed' = IF j.op = "backup" THEN mailed \cup {j.file} ELSE mailed
        /\ Succeeded(r, arrived) \/ (~serial /\ Thrown(r, arrived, t))
        /\ UNCHANGED <<serial, have, recent, tickets, calls, asked, restarts>>

Reject(r) ==
    /\ pc[r] = "mail" /\ Transport(job[r]) # "none" /\ ~job[r].dry
    /\ ~serial
    /\ Thrown(r, job[r], Transport(job[r]))
    /\ UNCHANGED <<serial, have, inbox, recent, tickets, mailed, calls, asked, restarts>>

\* MailService leaves the mail out without a word; the other services say so.
Skip(r) ==
    /\ pc[r] = "mail" /\ Transport(job[r]) = "none" /\ ~job[r].dry
    /\ IF job[r].op \in {"interest", "order", "welcome"} THEN Succeeded(r, job[r])
       ELSE Thrown(r, job[r], "none")
    /\ UNCHANGED <<serial, have, inbox, recent, tickets, mailed, calls, asked, restarts>>

\* A dry run of a batch counts each recipient as sent, and mails nobody.
Pretend(r) ==
    /\ pc[r] = "mail" /\ job[r].dry
    /\ Succeeded(r, job[r])
    /\ UNCHANGED <<serial, have, inbox, recent, tickets, mailed, calls, asked, restarts>>

-----------------------------------------------------------------------------
(***************************************************************************)
(* The environment.                                                        *)
(***************************************************************************)
\* DEDUPE_MS have passed since the click.
WindowEnds ==
    /\ recent
    /\ restarts < MaxRestarts
    /\ restarts' = restarts + 1
    /\ recent' = FALSE
    /\ UNCHANGED <<serial, have, inbox, tickets, answer, mailed, calls, asked, slot>>

Restart ==
    /\ ~serial
    /\ restarts < MaxRestarts
    /\ restarts' = restarts + 1
    /\ recent' = FALSE
    /\ pc' = [r \in Slots |-> "idle"]
    /\ job' = [r \in Slots |-> Free]
    /\ UNCHANGED <<serial, have, inbox, tickets, answer, mailed, calls, asked>>

Next ==
    \/ WindowEnds \/ Restart
    \/ \E r \in Slots :
        \/ HandleInterestClick(r) \/ SendOrderPlacedEmails(r) \/ NotifyNewSellerApplication(r)
        \/ SendWelcomeEmail(r) \/ SendOtpSms(r) \/ SubmitAppFeedback(r) \/ SubmitConcern(r)
        \/ SendDailyUsersReport(r) \/ RunDailyBackup(r) \/ SendBatch(r)
        \/ SaveTicket(r) \/ LookUpUser(r) \/ DumpToGzipFile(r)
        \/ Deliver(r) \/ Reject(r) \/ Skip(r) \/ Pretend(r)
    \/ ReportIssue

Spec == Init /\ [][Next]_vars

-----------------------------------------------------------------------------
(***************************************************************************)
(* Properties.                                                             *)
(***************************************************************************)
\* What an operation mails.
Lists(op) == IF op = "batch" THEN Batches ELSE {Mails[op]}
Lefts == UNION {Lists(op) : op \in Operations}

Job == [op : Operations, left : Lefts \cup {Tail(list) : list \in Lefts},
        got : SUBSET Addresses, failed : SUBSET (Equipment \cup {"none"}), sent : Nat, out : Nat,
        dry : BOOLEAN, file : {"none", "whole", "partial"}]

TypeOK ==
    /\ serial \in BOOLEAN /\ have \subseteq Equipment /\ recent \in BOOLEAN
    /\ tickets \in Nat /\ restarts \in 0 .. MaxRestarts
    /\ mailed \subseteq {"whole", "partial"}
    /\ calls \in [Operations -> Nat] /\ asked \in [Addresses -> Nat]
    /\ inbox \in [Operations -> [Addresses -> Nat]]
    /\ answer \in [Operations -> [says : Says, got : SUBSET Addresses,
                                  failed : SUBSET (Equipment \cup {"none"}), sent : Nat,
                                  out : Nat, dry : BOOLEAN]]
    /\ pc \in [Slots -> {"idle", "ticket", "lookup", "dump", "mail"}]
    /\ job \in [Slots -> Job \cup {Free}]
    /\ \A r \in Slots : pc[r] # "idle" => job[r] \in Job

MailTransports == have \cap {"resend", "smtp"}

\* Nobody gets a mail twice for one call, whatever answers are lost, but the team a seller's
\* registration (once over each transport) and who is listed twice in a batch (once for each
\* time; a dry run mails nobody); and of any number of clicks on "I'm Interested", overlapping
\* or after a failure, the team hears once until the six hours are over or the process restarts.
CopiesBounded ==
    \A op \in Operations, a \in Addresses :
        inbox[op][a] <= CASE op = "interest" -> 1 + restarts
                          [] op = "application" -> calls[op] * Cardinality(MailTransports)
                          [] op = "batch" -> asked[a]
                          [] OTHER -> calls[op]

\* Where mail can be sent at all, an answer that says it was sent is true: "we have sent you
\* a confirmation email", "emailed: true", and the number of mails a batch has sent, unless
\* the batch is a dry run, which answers the number of its recipients.
NeverOverclaims ==
    MailTransports # {} =>
        /\ \A op \in {"interest", "feedback"} :
            answer[op].says = "sent" => answer[op].got = ToSet(Mails[op])
        /\ ~answer["batch"].dry => answer["batch"].sent <= answer["batch"].out

\* The team is mailed the registration of a seller unless each transport there is has failed.
ApplicationArrives ==
    answer["application"].says # "nothing" /\ answer["application"].got = {} =>
        MailTransports \subseteq answer["application"].failed

\* A dump that pg_dump broke off is not mailed as the backup of the day, where its exit is
\* seen before the file is complete: nothing else keeps the two events in this order.
BackupIsWhole == serial => "partial" \notin mailed

-----------------------------------------------------------------------------
(***************************************************************************)
(* What these rest on.                                                     *)
(***************************************************************************)
Open(r, op) == pc[r] # "idle" /\ job[r].op = op

\* How a call can still reach an address: from each place it has in the list, or over each
\* transport left.
Ways(j, a) ==
    CASE j.dry -> {}
      [] ~j.dry /\ j.op = "application" -> {t \in MailTransports \ j.failed : a \in ToSet(j.left)}
      [] OTHER -> {w \in {"first", "last"} :
                      IF w = "last" THEN a = Last(j.left) ELSE Len(j.left) = 2 /\ a = Head(j.left)}
Chances(op, a) ==
    {p \in Slots \X {"first", "last", "resend", "smtp"} :
        Open(p[1], op) /\ p[2] \in Ways(job[p[1]], a)}

\* How many copies the calls allow; a click on file allows none.
Budget(op, a) ==
    CASE op = "interest" -> restarts + (IF recent THEN 1 ELSE 0)
      [] op = "application" -> calls[op] * Cardinality(MailTransports)
      [] op = "batch" -> asked[a]
      [] OTHER -> calls[op]

\* The mails out and those to come are within what the calls allow.
WithinBudget ==
    \A op \in Operations, a \in Addresses :
        /\ IsFiniteSet(Chances(op, a))
        /\ inbox[op][a] + Cardinality(Chances(op, a)) <= Budget(op, a)

\* What an open call knows of its own mails.
JobTrue(at, j) ==
    /\ \E list \in Lists(j.op) : j.left \in {list, Tail(list)} \ {<<>>}
    /\ MailTransports # {} /\ j.op \in {"interest", "feedback"} =>
          j.got \cup ToSet(j.left) = ToSet(Mails[j.op])
    /\ j.op = "batch" /\ ~j.dry => j.sent <= j.out
    /\ j.dry => j.op = "batch"
    /\ at \in {"ticket", "lookup"} => j.op \in {"feedback", "concern"}
    /\ at = "dump" => j.op = "backup"
    /\ serial => j.file # "partial"
    /\ at = "mail" /\ j.op = "backup" => j.file # "none"

JobsTrue == \A r \in Slots : pc[r] # "idle" => JobTrue(pc[r], job[r])
=============================================================================
