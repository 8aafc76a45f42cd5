-------------------------------- MODULE Mail --------------------------------
(***************************************************************************)
(* Gmail as one agent uses it: the tools (mail/tools.py), the checks of a  *)
(* batch (mail/actions.py), the client (mail/client.py), and the token in  *)
(* the store, which `assistai mail login` of another process also writes.  *)
(*                                                                         *)
(* A caller is a task of the gateway: the turn or the confirmed yes of the *)
(* person, or a job's turn. Each caller has one call at a time, and a call *)
(* makes one request after another; requests that follow each other and    *)
(* that nothing here tells apart are one (the inbox page and its count).   *)
(* The row of another agent is another row: one agent is enough.           *)
(***************************************************************************)
EXTENDS Naturals, FiniteSets

CONSTANTS
    Callers,
    Writers,      \* callers that may change the mailbox: jobs may not
    Messages,     \* ids
    Says,         \* external: the subject and sender of each message
    Batches,      \* confirmed batches: from ids to what the preview shows
    NoBatch,      \* the call changes no labels
    MaxGrants     \* bound: grants that Google issues

ASSUME WritersAssumption == Writers \subseteq Callers
ASSUME BatchesAssumption == NoBatch \notin Batches /\ \A b \in Batches : DOMAIN b \subseteq Messages
ASSUME MaxGrantsAssumption == MaxGrants \in Nat \ {0}

VARIABLES
    token,        \* the row of gmail_tokens: its grant, 0 if none, and if its access token is unexpired
    newest,       \* observed: the grant of the last login
    raced,        \* observed: a refresh was under way when that login was saved
    gone,         \* external: messages that were deleted
    mail          \* the call of each caller

mailVars == <<token, newest, raced, gone, mail>>

\* What a call asks: the inbox page, messages to check, a body, a body stored as
\* an attachment, the labels, the change of a batch, a draft.
Asks  == {"list", "check", "body", "part", "labels", "modify", "save"}
Call  == [step: {"idle", "token", "grant", "ask"}, what: Asks, left: SUBSET Messages,
          batch: Batches \cup {NoBatch}, move: BOOLEAN, bad: BOOLEAN, forced: BOOLEAN,
          grant: 0..MaxGrants, end: {"none", "done", "failed"}, wrote: 0..2]

MailTypeOK ==
    /\ token \in [grant: 0..MaxGrants, fresh: BOOLEAN]
    /\ newest \in 0..MaxGrants /\ raced \in BOOLEAN
    /\ gone \subseteq Messages
    /\ mail \in [Callers -> Call]

\* No call: the last one ended so, if it was to change something.
Ended(end, wrote) ==
    [step |-> "idle", what |-> "list", left |-> {}, batch |-> NoBatch, move |-> FALSE, bad |-> FALSE,
     forced |-> FALSE, grant |-> 0, end |-> end, wrote |-> wrote]

MailInit ==
    /\ token = [grant |-> 0, fresh |-> FALSE]
    /\ newest = 0 /\ raced = FALSE
    /\ gone = {}
    /\ mail = [c \in Callers |-> Ended("none", 0)]

Set(c, call) == mail' = [mail EXCEPT ![c] = call]

Changes(call) == call.batch # NoBatch \/ call.what = "save"

Finish(c, end, wrote) ==
    Set(c, IF Changes(mail[c]) THEN Ended(end, mail[c].wrote + wrote) ELSE Ended("none", 0))

-----------------------------------------------------------------------------
(* A call begins                                                           *)

Begin(c, what) == [Ended("none", 0) EXCEPT !.step = "token", !.what = what]

Idle(c) == mail[c].step = "idle" /\ UNCHANGED <<token, newest, raced, gone>>

Inbox(c) == Idle(c) /\ Set(c, Begin(c, "list"))
Read(c)  == Idle(c) /\ Set(c, Begin(c, "body"))
Draft(c) == Idle(c) /\ c \in Writers /\ Set(c, Begin(c, "save"))

\* apply: a GET for each message, the id of the label if the action is a move,
\* and one POST for the batch.
File(c, batch, move) ==
    /\ Idle(c) /\ c \in Writers
    /\ Set(c, [Begin(c, "check") EXCEPT !.left = DOMAIN batch, !.batch = batch, !.move = move])

-----------------------------------------------------------------------------
(* _access_token                                                           *)

\* gmail_token finds a row.
SignedIn == token.grant # 0

\* save_gmail_token
Saved(grant) == token' = [grant |-> grant, fresh |-> TRUE]

\* (Bug) A call reads the row once, for all its requests.
AccessTokenOnce(c) ==
    /\ mail[c].step = "token"
    /\ IF ~SignedIn THEN Finish(c, "failed", 0)
       ELSE IF token.fresh /\ ~mail[c].forced
            THEN Set(c, [mail[c] EXCEPT !.step = "ask", !.grant = token.grant])
       ELSE Set(c, [mail[c] EXCEPT !.step = "grant",
                                   !.grant = IF @ = 0 THEN token.grant ELSE @])
    /\ UNCHANGED <<token, newest, raced, gone>>

AccessToken(c) ==
    /\ mail[c].step = "token"
    /\ IF ~SignedIn THEN Finish(c, "failed", 0)
       ELSE IF token.fresh /\ ~mail[c].forced THEN Set(c, [mail[c] EXCEPT !.step = "ask"])
       ELSE Set(c, [mail[c] EXCEPT !.step = "grant", !.grant = token.grant])
    /\ UNCHANGED <<token, newest, raced, gone>>

\* _store_grant: the grant that was read before the request is the one saved.
\* Google does not replace the grant when it is refreshed.
StoreGrant(c) ==
    /\ mail[c].step = "grant"
    /\ \/ Saved(mail[c].grant) /\ Set(c, [mail[c] EXCEPT !.step = "ask", !.grant = 0])
       \/ UNCHANGED token /\ Finish(c, "failed", 0)
    /\ UNCHANGED <<newest, raced, gone>>

-----------------------------------------------------------------------------
(* The answer to a request, in _json and its caller                        *)

Asked(c, what) ==
    mail[c].step = "ask" /\ mail[c].what = what /\ UNCHANGED <<token, newest, raced, gone>>

\* The next request of the call.
Ask(c, what, left, bad) ==
    Set(c, [mail[c] EXCEPT !.step = "token", !.forced = FALSE, !.grant = 0,
                           !.what = what, !.left = left, !.bad = bad])

\* inbox: the page, then each of its messages.
PageListed(c) ==
    /\ Asked(c, "list")
    /\ \E page \in SUBSET (Messages \ gone) :
        IF page = {} THEN Finish(c, "done", 0) ELSE Ask(c, "check", page, FALSE)

Differs(c, m) == mail[c].batch # NoBatch /\ mail[c].batch[m] # Says[m]

\* (Bug) Only the last message is compared.
BadLast(c, m) == Differs(c, m)

\* Some message that `apply` has checked is not the one the preview shows.
Bad(c, m) == mail[c].bad \/ Differs(c, m)

\* After the checks: those of a batch must all have held.
Checked(c, bad) ==
    CASE mail[c].batch = NoBatch -> Finish(c, "done", 0)
      [] mail[c].batch # NoBatch /\ bad -> Finish(c, "failed", 0)
      [] OTHER -> Ask(c, IF mail[c].move THEN "labels" ELSE "modify", {}, FALSE)

\* What a message says is compared, and the next is asked for.
Check(c, m) ==
    LET left == mail[c].left \ {m} IN
    IF left = {} THEN Checked(c, Bad(c, m)) ELSE Ask(c, "check", left, Bad(c, m))

MessageFound(c) == Asked(c, "check") /\ \E m \in mail[c].left \ gone : Check(c, m)

\* 404 of a message: the inbox goes on without it.
NotFound(c) ==
    /\ Asked(c, "check")
    /\ \E m \in mail[c].left \cap gone :
        IF mail[c].batch = NoBatch THEN Check(c, m) ELSE Finish(c, "failed", 0)

\* read: the text, or else the text that is stored apart.
BodyRead(c) == Asked(c, "body") /\ (Finish(c, "done", 0) \/ Ask(c, "part", {}, FALSE))
PartRead(c) == Asked(c, "part") /\ Finish(c, "done", 0)

LabelFound(c) == Asked(c, "labels") /\ Ask(c, "modify", {}, FALSE)
Modified(c)   == Asked(c, "modify") /\ Finish(c, "done", 1)
DraftSaved(c) == Asked(c, "save") /\ Finish(c, "done", 1)

\* (Bug) A second 401 is answered like the first.
RejectedAgain(c) ==
    /\ mail[c].step = "ask"
    /\ Set(c, [mail[c] EXCEPT !.step = "token", !.forced = TRUE])
    /\ UNCHANGED <<token, newest, raced, gone>>

\* 401: one more try, with a new access token.
Rejected(c) ==
    /\ mail[c].step = "ask"
    /\ IF mail[c].forced THEN Finish(c, "failed", 0)
       ELSE Set(c, [mail[c] EXCEPT !.step = "token", !.forced = TRUE])
    /\ UNCHANGED <<token, newest, raced, gone>>

\* (Bug) A request whose answer was lost is made once more.
UnavailableAgain(c) ==
    /\ mail[c].step = "ask"
    /\ IF mail[c].forced \/ mail[c].what \notin {"modify", "save"} THEN Finish(c, "failed", 0)
       ELSE Set(c, [mail[c] EXCEPT !.step = "token", !.forced = TRUE, !.wrote = @ + 1])
    /\ UNCHANGED <<token, newest, raced, gone>>

\* Any other failure ends the call: a label or body that is not there, a refusal,
\* no answer. Gmail may have done what it was asked.
Unavailable(c) ==
    /\ mail[c].step = "ask"
    /\ \/ Finish(c, "failed", 0)
       \/ mail[c].what \in {"modify", "save"} /\ Finish(c, "failed", 1)
    /\ UNCHANGED <<token, newest, raced, gone>>

-----------------------------------------------------------------------------
(* Around the calls                                                        *)

\* mail login: exchange saves a new grant. It reads no row.
Login ==
    /\ newest < MaxGrants
    /\ newest' = newest + 1 /\ Saved(newest + 1)
    /\ raced' = \E c \in Callers : mail[c].step = "grant"
    /\ UNCHANGED <<gone, mail>>

Expire ==
    /\ token.fresh /\ token' = [token EXCEPT !.fresh = FALSE]
    /\ UNCHANGED <<newest, raced, gone, mail>>

Delete(m) ==
    /\ m \notin gone /\ gone' = gone \cup {m}
    /\ UNCHANGED <<token, newest, raced, mail>>

MailStart(c) ==
    \/ Inbox(c) \/ Read(c) \/ Draft(c)
    \/ \E batch \in Batches, move \in BOOLEAN : File(c, batch, move)

MailStep(c) ==
    \/ AccessToken(c) \/ StoreGrant(c)
    \/ PageListed(c) \/ MessageFound(c) \/ NotFound(c) \/ BodyRead(c) \/ PartRead(c)
    \/ LabelFound(c) \/ Modified(c) \/ DraftSaved(c) \/ Rejected(c) \/ Unavailable(c)

MailAround == Login \/ Expire \/ \E m \in Messages : Delete(m)
=============================================================================
