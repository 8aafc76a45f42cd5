--------------------------- MODULE ServicesProofs ---------------------------
(***************************************************************************)
(* Proofs about Services, for any callers, messages, batches, addresses    *)
(* and streams: what becomes of a confirmed change to the mailbox or to    *)
(* the calendar, of a login, and of what the model says.                   *)
(***************************************************************************)
EXTENDS Services, TLAPS

-----------------------------------------------------------------------------
(* The record of a call                                                    *)

LEMMA CallType ==
    ASSUME NEW r \in Call
    PROVE  /\ r.step \in {"idle", "token", "grant", "ask"} /\ r.what \in Asks
           /\ r.left \subseteq Messages /\ r.batch \in Batches \cup {NoBatch}
           /\ r.bad \in BOOLEAN /\ r.forced \in BOOLEAN /\ r.move \in BOOLEAN
           /\ r.grant \in 0..MaxGrants /\ r.end \in {"none", "done", "failed"} /\ r.wrote \in 0..2
BY DEF Call

LEMMA ZeroGrant == 0 \in 0..MaxGrants
BY MaxGrantsAssumption

LEMMA EndedCall ==
    ASSUME NEW end \in {"none", "done", "failed"}, NEW w \in 0..1
    PROVE  /\ Ended(end, w) \in Call
           /\ Ended(end, w).step = "idle" /\ Ended(end, w).batch = NoBatch
           /\ Ended(end, w).end = end /\ Ended(end, w).wrote = w
BY MaxGrantsAssumption DEF Call, Ended, Asks

\* What an action keeps of a call that goes on.
SamePlan(s, r) ==
    /\ s.what = r.what /\ s.left = r.left /\ s.batch = r.batch /\ s.bad = r.bad
    /\ s.end = r.end /\ s.wrote = r.wrote

\* The records that the actions make of a call.
Begun(r, what) == [r EXCEPT !.step = "token", !.what = what]
Filed(r, batch, move) == [r EXCEPT !.left = DOMAIN batch, !.batch = batch, !.move = move]
AskedFor(r, what, left, bad) ==
    [r EXCEPT !.step = "token", !.forced = FALSE, !.grant = 0,
              !.what = what, !.left = left, !.bad = bad]
Granting(r, g) == [r EXCEPT !.step = "grant", !.grant = g]

LEMMA BegunCall ==
    ASSUME NEW r \in Call, NEW what \in Asks,
           NEW s, s = Begun(r, what)
    PROVE  /\ s \in Call /\ s.step = "token" /\ s.what = what
           /\ s.left = r.left /\ s.batch = r.batch /\ s.bad = r.bad
           /\ s.end = r.end /\ s.wrote = r.wrote
BY DEF Call, Begun

LEMMA FiledCall ==
    ASSUME NEW r \in Call, NEW batch \in Batches, NEW move \in BOOLEAN,
           NEW s, s = Filed(r, batch, move)
    PROVE  /\ s \in Call /\ s.step = r.step /\ s.what = r.what
           /\ s.left = DOMAIN batch /\ s.batch = batch
           /\ s.end = r.end /\ s.wrote = r.wrote
BY BatchesAssumption DEF Call, Filed

LEMMA AskedCall ==
    ASSUME NEW r \in Call, NEW what \in Asks, NEW left \in SUBSET Messages, NEW bad \in BOOLEAN,
           NEW s, s = AskedFor(r, what, left, bad)
    PROVE  /\ s \in Call /\ s.step = "token" /\ s.what = what
           /\ s.left = left /\ s.batch = r.batch /\ s.bad = bad
           /\ s.end = r.end /\ s.wrote = r.wrote
BY ZeroGrant DEF Call, AskedFor

LEMMA ForcedCall ==
    ASSUME NEW r \in Call,
           NEW s, s = [r EXCEPT !.step = "token", !.forced = TRUE]
    PROVE  s \in Call /\ s.step = "token" /\ SamePlan(s, r)
BY DEF Call, SamePlan

LEMMA AskingCall ==
    ASSUME NEW r \in Call,
           NEW s, s = [r EXCEPT !.step = "ask"]
    PROVE  s \in Call /\ s.step = "ask" /\ SamePlan(s, r)
BY DEF Call, SamePlan

LEMMA GrantedCall ==
    ASSUME NEW r \in Call,
           NEW s, s = [r EXCEPT !.step = "ask", !.grant = 0]
    PROVE  s \in Call /\ s.step = "ask" /\ SamePlan(s, r)
BY ZeroGrant DEF Call, SamePlan

LEMMA GrantCall ==
    ASSUME NEW r \in Call, NEW g \in 0..MaxGrants,
           NEW s, s = Granting(r, g)
    PROVE  s \in Call /\ s.step = "grant" /\ s.grant = g /\ SamePlan(s, r)
BY DEF Call, Granting, SamePlan

-----------------------------------------------------------------------------
(* A call of Gmail                                                         *)

\* The messages of the batch that were checked say what the preview shows.
AsShown(x, checked) == \A m \in checked : Says[m] = x.batch[m]

\* A call under way has written nothing yet. Past the checks of a batch, every
\* message of it is as shown; during them, those that are no longer left, unless
\* one was found bad.
Good(x) ==
    /\ x \in Call
    /\ x.wrote <= 1 /\ (x.end = "done" => x.wrote = 1)
    /\ x.step # "idle" => x.wrote = 0 /\ x.end = "none"
    /\ x.batch # NoBatch =>
        /\ x.step # "idle" /\ x.what \in {"check", "labels", "modify"}
        /\ x.what = "check" => x.bad \/ AsShown(x, DOMAIN x.batch \ x.left)
        /\ x.what # "check" => AsShown(x, DOMAIN x.batch)

\* A refresh that is under way holds the grant of the last login, unless it was
\* under way already when that login was saved.
Current(x) == x.step = "grant" => x.grant = newest \/ raced

MailInv ==
    /\ token \in [grant: 0..MaxGrants, fresh: BOOLEAN] /\ newest \in 0..MaxGrants
    /\ DOMAIN mail = Callers
    /\ \A c \in Callers : Good(mail[c]) /\ Current(mail[c])
    /\ LoginStands

LEMMA EndedGood ==
    ASSUME NEW end \in {"none", "done", "failed"}, NEW w \in 0..1, end = "done" => w = 1
    PROVE  Good(Ended(end, w)) /\ Current(Ended(end, w))
BY EndedCall DEF Good, Current

\* Setting one call to one that is good is all that an action of a caller does.
LEMMA SetKeeps ==
    ASSUME MailInv, NEW c \in Callers, NEW x, Good(x), Current(x), mail' = [mail EXCEPT ![c] = x],
           UNCHANGED <<token, newest, raced>>
    PROVE  MailInv'
<1>1. \A d \in Callers : mail'[d] = IF d = c THEN x ELSE mail[d]
  BY DEF MailInv
<1>2. \A d \in Callers : Good(mail'[d])
  BY <1>1 DEF MailInv
<1>3. \A d \in Callers : Current(mail[d])'
  BY <1>1 DEF MailInv, Current
<1> QED
  BY <1>2, <1>3 DEF MailInv, LoginStands

\* A call ends: with the outcome and the number of writes if it was to change
\* something, and without them otherwise.
LEMMA FinishKeeps ==
    ASSUME MailInv, NEW c \in Callers, mail[c].step # "idle",
           NEW end \in {"done", "failed"}, NEW w \in 0..1,
           end = "done" /\ Changes(mail[c]) => w = 1,
           Finish(c, end, w), UNCHANGED <<token, newest, raced>>
    PROVE  MailInv'
<1>1. mail[c].wrote = 0 /\ Good(mail[c])
  BY DEF MailInv, Good
<1>2. CASE Changes(mail[c])
  <2>1. mail' = [mail EXCEPT ![c] = Ended(end, w)]
    BY <1>1, <1>2 DEF Finish, Set
  <2>2. Good(Ended(end, w)) /\ Current(Ended(end, w))
    BY <1>2, EndedGood
  <2> QED
    BY <2>1, <2>2, SetKeeps
<1>3. CASE ~Changes(mail[c])
  <2>1. mail' = [mail EXCEPT ![c] = Ended("none", 0)]
    BY <1>3 DEF Finish, Set
  <2>2. Good(Ended("none", 0)) /\ Current(Ended("none", 0))
    BY EndedGood
  <2> QED
    BY <2>1, <2>2, SetKeeps
<1> QED
  BY <1>2, <1>3

\* The next request of a call.
LEMMA AskKeeps ==
    ASSUME MailInv, NEW c \in Callers, mail[c].step # "idle",
           NEW what \in Asks, NEW left \in SUBSET Messages, NEW bad \in BOOLEAN,
           mail[c].batch # NoBatch =>
                /\ what \in {"check", "labels", "modify"}
                /\ what = "check" => bad \/ AsShown(mail[c], DOMAIN mail[c].batch \ left)
                /\ what # "check" => AsShown(mail[c], DOMAIN mail[c].batch),
           Ask(c, what, left, bad), UNCHANGED <<token, newest, raced>>
    PROVE  MailInv'
<1> DEFINE x == [mail[c] EXCEPT !.step = "token", !.forced = FALSE, !.grant = 0,
                                !.what = what, !.left = left, !.bad = bad]
<1>1. Good(mail[c]) /\ mail[c] \in Call
  BY DEF MailInv, Good
<1>2. mail' = [mail EXCEPT ![c] = x]
  BY DEF Ask, Set
<1>3. x = AskedFor(mail[c], what, left, bad)
  BY DEF AskedFor
<1> HIDE DEF x
<1>4. /\ x \in Call
      /\ x.step = "token" /\ x.wrote = mail[c].wrote /\ x.end = mail[c].end
      /\ x.batch = mail[c].batch /\ x.what = what /\ x.left = left /\ x.bad = bad
  BY <1>1, <1>3, AskedCall
<1>5. Good(x) /\ Current(x)
  BY <1>1, <1>4 DEF Good, Current, AsShown
<1> QED
  BY <1>2, <1>5, SetKeeps

-----------------------------------------------------------------------------
(* The actions of a caller                                                 *)

LEMMA StartKeeps == ASSUME MailInv, NEW c \in Callers, MailStart(c) PROVE MailInv'
<1> DEFINE r == Ended("none", 0)
<1>1. r \in Call /\ r.batch = NoBatch /\ r.end = "none" /\ r.wrote = 0
  BY EndedCall
<1> HIDE DEF r
<1>2. CASE Inbox(c) \/ Read(c) \/ Draft(c)
  <2>1. PICK what \in {"list", "body", "save"} : mail' = [mail EXCEPT ![c] = Begin(c, what)]
    BY <1>2 DEF Inbox, Read, Draft, Set
  <2>2. UNCHANGED <<token, newest, raced>>
    BY <1>2 DEF Inbox, Read, Draft, Idle
  <2> DEFINE x == [r EXCEPT !.step = "token", !.what = what]
  <2>3. mail' = [mail EXCEPT ![c] = x]
    BY <2>1 DEF Begin, r
  <2>4. what \in Asks /\ x = Begun(r, what)
    BY DEF Asks, Begun
  <2> HIDE DEF x
  <2>5. x \in Call /\ x.step = "token" /\ x.batch = NoBatch /\ x.end = "none" /\ x.wrote = 0
    BY <1>1, <2>4, BegunCall
  <2>6. Good(x) /\ Current(x)
    BY <2>5 DEF Good, Current
  <2> QED
    BY <2>2, <2>3, <2>6, SetKeeps
<1>3. CASE \E batch \in Batches, move \in BOOLEAN : File(c, batch, move)
  <2>1. PICK batch \in Batches, move \in BOOLEAN : File(c, batch, move)
    BY <1>3
  <2> DEFINE s == [r EXCEPT !.step = "token", !.what = "check"]
             x == [s EXCEPT !.left = DOMAIN batch, !.batch = batch, !.move = move]
  <2>2. mail' = [mail EXCEPT ![c] = x] /\ UNCHANGED <<token, newest, raced>>
    BY <2>1 DEF File, Idle, Set, Begin, r
  <2>3. s = Begun(r, "check") /\ x = Filed(s, batch, move)
    BY DEF Begun, Filed
  <2> HIDE DEF s, x
  <2>4. s \in Call /\ s.step = "token" /\ s.what = "check" /\ s.end = "none" /\ s.wrote = 0
    BY <1>1, <2>3, BegunCall DEF Asks
  <2>5. /\ x \in Call /\ x.step = "token" /\ x.what = "check" /\ x.end = "none" /\ x.wrote = 0
        /\ x.batch = batch /\ x.left = DOMAIN batch
    BY <2>3, <2>4, FiledCall
  <2>6. Good(x) /\ Current(x)
    BY <2>5 DEF Good, AsShown, Current
  <2> QED
    BY <2>2, <2>6, SetKeeps
<1> QED
  BY <1>2, <1>3 DEF MailStart

\* A step that changes neither what is asked nor what is known of the batch.
LEMMA GoesOn ==
    ASSUME MailInv, NEW c \in Callers, mail[c].step # "idle",
           NEW x \in Call, x.step # "idle", SamePlan(x, mail[c]), Current(x),
           mail' = [mail EXCEPT ![c] = x], UNCHANGED <<token, newest, raced>>
    PROVE  MailInv'
<1>1. Good(mail[c])
  BY DEF MailInv
<1>2. Good(x)
  BY <1>1 DEF Good, SamePlan, AsShown
<1> QED
  BY <1>2, SetKeeps

LEMMA TokenKeeps == ASSUME MailInv, NEW c \in Callers, AccessToken(c) PROVE MailInv'
<1>1. mail[c].step # "idle" /\ UNCHANGED <<token, newest, raced>>
  BY DEF AccessToken
<1>2. mail[c] \in Call
  BY DEF MailInv, Good
<1>3. CASE ~SignedIn
  <2>1. Finish(c, "failed", 0)
    BY <1>3 DEF AccessToken
  <2> QED
    BY <1>1, <2>1, FinishKeeps
<1>4. CASE SignedIn /\ token.fresh /\ ~mail[c].forced
  <2> DEFINE x == [mail[c] EXCEPT !.step = "ask"]
  <2>1. mail' = [mail EXCEPT ![c] = x] /\ x = [mail[c] EXCEPT !.step = "ask"]
    BY <1>4 DEF AccessToken, Set
  <2> HIDE DEF x
  <2>2. x \in Call /\ x.step = "ask" /\ SamePlan(x, mail[c])
    BY <1>2, <2>1, AskingCall
  <2> QED
    BY <1>1, <2>1, <2>2, GoesOn DEF Current
<1>5. CASE SignedIn /\ ~(token.fresh /\ ~mail[c].forced)
  <2> DEFINE x == [mail[c] EXCEPT !.step = "grant", !.grant = token.grant]
  <2>1. mail' = [mail EXCEPT ![c] = x] /\ x = Granting(mail[c], token.grant)
    BY <1>5 DEF AccessToken, Set, Granting
  <2> HIDE DEF x
  <2>2. token.grant \in 0..MaxGrants /\ (token.grant = newest \/ raced)
    BY DEF MailInv, LoginStands
  <2>3. x \in Call /\ x.step = "grant" /\ x.grant = token.grant /\ SamePlan(x, mail[c])
    BY <1>2, <2>1, <2>2, GrantCall
  <2>4. Current(x)
    BY <2>2, <2>3 DEF Current
  <2> QED
    BY <1>1, <2>1, <2>3, <2>4, GoesOn
<1> QED
  BY <1>3, <1>4, <1>5

\* What is saved is the grant of the last login, unless that login raced.
LEMMA GrantKeeps == ASSUME MailInv, NEW c \in Callers, StoreGrant(c) PROVE MailInv'
<1>1. mail[c] \in Call /\ mail[c].step = "grant" /\ Good(mail[c]) /\ Current(mail[c])
  BY DEF MailInv, Good, StoreGrant
<1>2. CASE UNCHANGED token /\ Finish(c, "failed", 0)
  BY <1>1, <1>2, FinishKeeps DEF StoreGrant
<1>3. CASE Saved(mail[c].grant) /\ Set(c, [mail[c] EXCEPT !.step = "ask", !.grant = 0])
  <2> DEFINE x == [mail[c] EXCEPT !.step = "ask", !.grant = 0]
  <2>1. mail' = [mail EXCEPT ![c] = x] /\ x = [mail[c] EXCEPT !.step = "ask", !.grant = 0]
    BY <1>3 DEF Set
  <2> HIDE DEF x
  <2>2. x \in Call /\ x.step = "ask" /\ SamePlan(x, mail[c])
    BY <1>1, <2>1, GrantedCall
  <2>3. Good(x)
    BY <1>1, <2>2 DEF Good, SamePlan, AsShown
  <2>4. UNCHANGED <<newest, raced>>
    BY DEF StoreGrant
  <2>5. token' = [grant |-> mail[c].grant, fresh |-> TRUE] /\ mail[c].grant \in 0..MaxGrants
    BY <1>1, <1>3, CallType DEF Saved
  <2>6. \A d \in Callers : mail'[d] = IF d = c THEN x ELSE mail[d]
    BY <2>1 DEF MailInv
  <2>7. \A d \in Callers : Good(mail'[d])
    BY <2>3, <2>6 DEF MailInv
  <2>8. \A d \in Callers : Current(mail[d])'
    BY <2>2, <2>4, <2>6 DEF MailInv, Current
  <2>9. LoginStands'
    BY <1>1, <2>4, <2>5 DEF LoginStands, Current
  <2> QED
    BY <2>1, <2>4, <2>5, <2>7, <2>8, <2>9 DEF MailInv
<1> QED
  BY <1>2, <1>3 DEF StoreGrant

LEMMA RejectedKeeps == ASSUME MailInv, NEW c \in Callers, Rejected(c) PROVE MailInv'
<1>1. mail[c].step = "ask" /\ UNCHANGED <<token, newest, raced>>
  BY DEF Rejected
<1>2. CASE mail[c].forced
  BY <1>1, <1>2, FinishKeeps DEF Rejected
<1>3. CASE ~mail[c].forced
  <2> DEFINE x == [mail[c] EXCEPT !.step = "token", !.forced = TRUE]
  <2>1. mail' = [mail EXCEPT ![c] = x] /\ x = [mail[c] EXCEPT !.step = "token", !.forced = TRUE]
    BY <1>3 DEF Rejected, Set
  <2> HIDE DEF x
  <2>2. mail[c] \in Call
    BY DEF MailInv, Good
  <2>3. x \in Call /\ x.step = "token" /\ SamePlan(x, mail[c])
    BY <2>1, <2>2, ForcedCall
  <2> QED
    BY <1>1, <2>1, <2>3, GoesOn DEF Current
<1> QED
  BY <1>2, <1>3

LEMMA UnavailableKeeps == ASSUME MailInv, NEW c \in Callers, Unavailable(c) PROVE MailInv'
<1>1. mail[c].step = "ask" /\ UNCHANGED <<token, newest, raced>>
  BY DEF Unavailable
<1>2. Finish(c, "failed", 0) \/ Finish(c, "failed", 1)
  BY DEF Unavailable
<1> QED
  BY <1>1, <1>2, FinishKeeps

\* The message that was found is compared: the rest of the batch is still left,
\* and what the preview shows of those that are not is right, or bad is set.
LEMMA CheckKeeps ==
    ASSUME MailInv, NEW c \in Callers, NEW m \in mail[c].left, Asked(c, "check"), Check(c, m)
    PROVE  MailInv'
<1> DEFINE left == mail[c].left \ {m}
<1>1. /\ mail[c].step # "idle" /\ mail[c].what = "check" /\ UNCHANGED <<token, newest, raced>>
      /\ Good(mail[c]) /\ mail[c] \in Call
  BY DEF Asked, MailInv, Good
<1>2. left \in SUBSET Messages /\ mail[c].bad \in BOOLEAN /\ Bad(c, m) \in BOOLEAN
  BY <1>1, CallType DEF Bad, Differs
<1>3. mail[c].batch # NoBatch => Bad(c, m) \/ AsShown(mail[c], DOMAIN mail[c].batch \ left)
  BY <1>1 DEF Good, Bad, Differs, AsShown
<1>4. CASE left # {}
  <2>1. Ask(c, "check", left, Bad(c, m))
    BY <1>4 DEF Check
  <2> HIDE DEF left
  <2> QED
    BY <1>1, <1>2, <1>3, <2>1, AskKeeps DEF Asks
<1>5. CASE left = {}
  <2>1. Checked(c, Bad(c, m))
    BY <1>5 DEF Check
  <2>2. CASE mail[c].batch = NoBatch
    <3>1. Finish(c, "done", 0)
      BY <2>1, <2>2 DEF Checked
    <3>2. ~Changes(mail[c])
      BY <1>1, <2>2 DEF Changes
    <3> QED
      BY <1>1, <3>1, <3>2, FinishKeeps
  <2>3. CASE mail[c].batch # NoBatch /\ Bad(c, m)
    <3>1. Finish(c, "failed", 0)
      BY <2>1, <2>3 DEF Checked
    <3> QED
      BY <1>1, <3>1, FinishKeeps
  <2>4. CASE mail[c].batch # NoBatch /\ ~Bad(c, m)
    <3> DEFINE next == IF mail[c].move THEN "labels" ELSE "modify"
    <3>1. Ask(c, next, {}, FALSE)
      BY <2>1, <2>4 DEF Checked
    <3>2. next \in {"labels", "modify"} /\ next \in Asks
      BY DEF Asks
    <3>3. AsShown(mail[c], DOMAIN mail[c].batch)
      BY <1>3, <1>5, <2>4 DEF AsShown
    <3> HIDE DEF next
    <3> QED
      BY <1>1, <3>1, <3>2, <3>3, AskKeeps
  <2> QED
    BY <2>2, <2>3, <2>4
<1> QED
  BY <1>4, <1>5

LEMMA AnswerKeeps ==
    ASSUME MailInv, NEW c \in Callers,
           \/ PageListed(c) \/ MessageFound(c) \/ NotFound(c) \/ BodyRead(c) \/ PartRead(c)
           \/ LabelFound(c) \/ Modified(c) \/ DraftSaved(c)
    PROVE  MailInv'
<1>1. mail[c].step # "idle" /\ UNCHANGED <<token, newest, raced>>
  BY DEF PageListed, MessageFound, NotFound, BodyRead, PartRead, LabelFound, Modified, DraftSaved, Asked
<1>2. Good(mail[c])
  BY DEF MailInv
<1>3. CASE PageListed(c)
  <2>1. mail[c].what = "list" /\ mail[c].batch = NoBatch /\ ~Changes(mail[c])
    BY <1>2, <1>3 DEF PageListed, Asked, Good, Changes
  <2>2. PICK page \in SUBSET (Messages \ gone) :
            IF page = {} THEN Finish(c, "done", 0) ELSE Ask(c, "check", page, FALSE)
    BY <1>3 DEF PageListed
  <2>3. CASE page = {}
    BY <1>1, <2>1, <2>2, <2>3, FinishKeeps
  <2>4. CASE page # {}
    BY <1>1, <2>1, <2>2, <2>4, AskKeeps DEF Asks
  <2> QED
    BY <2>3, <2>4
<1>4. CASE MessageFound(c)
  BY <1>4, CheckKeeps DEF MessageFound
<1>5. CASE NotFound(c)
  <2>1. Asked(c, "check")
    BY <1>5 DEF NotFound
  <2>2. PICK m \in mail[c].left : IF mail[c].batch = NoBatch THEN Check(c, m) ELSE Finish(c, "failed", 0)
    BY <1>5 DEF NotFound
  <2>3. CASE mail[c].batch = NoBatch
    BY <2>1, <2>2, <2>3, CheckKeeps
  <2>4. CASE mail[c].batch # NoBatch
    BY <1>1, <2>2, <2>4, FinishKeeps
  <2> QED
    BY <2>3, <2>4
<1>6. CASE BodyRead(c) \/ PartRead(c)
  <2>1. mail[c].batch = NoBatch /\ ~Changes(mail[c])
    BY <1>2, <1>6 DEF BodyRead, PartRead, Asked, Good, Changes
  <2>2. CASE Finish(c, "done", 0)
    BY <1>1, <2>1, <2>2, FinishKeeps
  <2>3. CASE Ask(c, "part", {}, FALSE)
    BY <1>1, <2>1, <2>3, AskKeeps DEF Asks
  <2> QED
    BY <1>6, <2>2, <2>3 DEF BodyRead, PartRead
<1>7. CASE LabelFound(c)
  <2>1. mail[c].what = "labels" /\ Ask(c, "modify", {}, FALSE)
    BY <1>7 DEF LabelFound, Asked
  <2>2. mail[c].batch # NoBatch => AsShown(mail[c], DOMAIN mail[c].batch)
    BY <1>2, <2>1 DEF Good
  <2> QED
    BY <1>1, <2>1, <2>2, AskKeeps DEF Asks
<1>8. CASE Modified(c) \/ DraftSaved(c)
  BY <1>1, <1>8, FinishKeeps DEF Modified, DraftSaved
<1> QED
  BY <1>3, <1>4, <1>5, <1>6, <1>7, <1>8

LEMMA StepKeeps == ASSUME MailInv, NEW c \in Callers, MailStep(c) PROVE MailInv'
BY TokenKeeps, GrantKeeps, AnswerKeeps, RejectedKeeps, UnavailableKeeps DEF MailStep

LEMMA AroundKeeps == ASSUME MailInv, MailAround PROVE MailInv'
<1>1. CASE Login
  <2>1. /\ newest' = newest + 1 /\ newest' \in 0..MaxGrants /\ UNCHANGED mail
        /\ token' = [grant |-> newest', fresh |-> TRUE]
        /\ raced' = \E c \in Callers : mail[c].step = "grant"
    BY <1>1, MaxGrantsAssumption DEF Login, Saved, MailInv
  <2>2. \A c \in Callers : Current(mail[c])'
    BY <2>1 DEF Current
  <2> QED
    BY <2>1, <2>2 DEF MailInv, LoginStands
<1>2. CASE Expire
  <2>1. token' = [token EXCEPT !.fresh = FALSE] /\ UNCHANGED <<newest, raced, mail>>
    BY <1>2 DEF Expire
  <2>2. token'.grant = token.grant /\ token' \in [grant: 0..MaxGrants, fresh: BOOLEAN]
    BY <2>1 DEF MailInv
  <2> QED
    BY <2>1, <2>2 DEF MailInv, LoginStands, Current
<1>3. CASE \E m \in Messages : Delete(m)
  BY <1>3 DEF Delete, MailInv, LoginStands, Current
<1> QED
  BY <1>1, <1>2, <1>3 DEF MailAround

LEMMA MailKeeps == ASSUME MailInv, [Next]_vars PROVE MailInv'
<1>1. CASE UNCHANGED mailVars
  BY <1>1 DEF mailVars, MailInv, LoginStands, Current
<1>2. CASE MailNext
  BY <1>2, StartKeeps, StepKeeps, AroundKeeps DEF MailNext
<1> QED
  BY <1>1, <1>2 DEF Next, vars

LEMMA MailBegins == MailInit => MailInv
<1> SUFFICES ASSUME MailInit PROVE MailInv
  OBVIOUS
<1>1. Good(Ended("none", 0)) /\ Current(Ended("none", 0))
  BY EndedGood
<1>2. token \in [grant: 0..MaxGrants, fresh: BOOLEAN] /\ newest \in 0..MaxGrants /\ LoginStands
  BY ZeroGrant DEF MailInit, LoginStands
<1> QED
  BY <1>1, <1>2 DEF MailInit, MailInv

\* A task changes no call but its own.
LEMMA OthersStay ==
    ASSUME MailInv, NEW c \in Callers, NEW d \in Callers, d # c, MailStart(d) \/ MailStep(d)
    PROVE  mail'[c] = mail[c]
<1>1. ASSUME NEW x, Set(d, x) PROVE mail'[c] = mail[c]
  BY <1>1 DEF Set, MailInv
<1>2. ASSUME NEW end, NEW w, Finish(d, end, w) PROVE mail'[c] = mail[c]
  BY <1>1, <1>2 DEF Finish
<1>3. ASSUME NEW what, NEW left, NEW bad, Ask(d, what, left, bad) PROVE mail'[c] = mail[c]
  BY <1>1, <1>3 DEF Ask
<1>4. ASSUME NEW m, Check(d, m) PROVE mail'[c] = mail[c]
  BY <1>2, <1>3, <1>4 DEF Check, Checked
<1>5. CASE MailStart(d)
  BY <1>1, <1>5 DEF MailStart, Inbox, Read, Draft, File
<1>6. CASE AccessToken(d) \/ StoreGrant(d) \/ Rejected(d) \/ Unavailable(d)
  BY <1>1, <1>2, <1>6 DEF AccessToken, StoreGrant, Rejected, Unavailable
<1>7. CASE PageListed(d) \/ MessageFound(d) \/ NotFound(d)
  BY <1>2, <1>3, <1>4, <1>7 DEF PageListed, MessageFound, NotFound
<1>8. CASE BodyRead(d) \/ PartRead(d) \/ LabelFound(d) \/ Modified(d) \/ DraftSaved(d)
  BY <1>2, <1>3, <1>8 DEF BodyRead, PartRead, LabelFound, Modified, DraftSaved
<1> QED
  BY <1>5, <1>6, <1>7, <1>8 DEF MailStep

\* While the messages of a batch are checked nothing is written.
LEMMA ChecksWriteNothing ==
    ASSUME MailInv, [Next]_vars, NEW c \in Callers, mail[c].step # "idle",
           mail[c].what = "check", mail[c].batch # NoBatch
    PROVE  mail'[c].wrote = 0
<1>1. mail[c] \in Call /\ mail[c].wrote = 0 /\ DOMAIN mail = Callers
  BY DEF MailInv, Good
<1>2. ASSUME NEW end \in {"done", "failed"}, Finish(c, end, 0) PROVE mail'[c].wrote = 0
  <2>1. mail'[c] = Ended(end, 0) \/ mail'[c] = Ended("none", 0)
    BY <1>1, <1>2 DEF Finish, Set
  <2> QED
    BY <2>1, EndedCall
<1>3. ASSUME NEW what, NEW left, NEW bad, Ask(c, what, left, bad) PROVE mail'[c].wrote = 0
  <2>1. mail'[c] = [mail[c] EXCEPT !.step = "token", !.forced = FALSE, !.grant = 0,
                                   !.what = what, !.left = left, !.bad = bad]
    BY <1>1, <1>3 DEF Ask, Set
  <2> QED
    BY <1>1, <2>1 DEF Call
<1>4. CASE AccessToken(c) \/ StoreGrant(c) \/ Rejected(c)
  <2>1. ASSUME NEW x, x.wrote = 0, Set(c, x) PROVE mail'[c].wrote = 0
    BY <1>1, <2>1 DEF Set
  <2>2. /\ [mail[c] EXCEPT !.step = "ask"].wrote = 0
        /\ [mail[c] EXCEPT !.step = "grant", !.grant = token.grant].wrote = 0
        /\ [mail[c] EXCEPT !.step = "ask", !.grant = 0].wrote = 0
        /\ [mail[c] EXCEPT !.step = "token", !.forced = TRUE].wrote = 0
    BY <1>1 DEF Call
  <2> QED
    BY <1>2, <1>4, <2>1, <2>2 DEF AccessToken, StoreGrant, Rejected
<1>5. CASE MessageFound(c) \/ NotFound(c)
  <2>1. CASE NotFound(c)
    BY <1>2, <1>5, <2>1 DEF NotFound
  <2>2. CASE MessageFound(c)
    <3>1. PICK m : Check(c, m)
      BY <2>2 DEF MessageFound
    <3>2. CASE Ask(c, "check", mail[c].left \ {m}, Bad(c, m))
      BY <1>3, <3>2
    <3>3. CASE Checked(c, Bad(c, m))
      BY <1>2, <1>3, <3>3 DEF Checked
    <3> QED
      BY <3>1, <3>2, <3>3 DEF Check
  <2> QED
    BY <1>5, <2>1, <2>2
<1>6. CASE Unavailable(c)
  BY <1>2, <1>6 DEF Unavailable
<1>7. CASE MailStep(c)
  BY <1>4, <1>5, <1>6, <1>7 DEF MailStep, PageListed, BodyRead, PartRead, LabelFound, Modified, DraftSaved, Asked
<1>8. CASE UNCHANGED mail
  BY <1>1, <1>8
<1>9. ASSUME NEW d \in Callers, d # c, MailStart(d) \/ MailStep(d) PROVE mail'[c].wrote = 0
  BY <1>1, <1>9, OthersStay
<1>10. ~MailStart(c)
  BY DEF MailStart, Inbox, Read, Draft, File, Idle
<1>11. MailAround => UNCHANGED mail
  BY DEF MailAround, Login, Expire, Delete
<1> QED
  BY <1>7, <1>8, <1>9, <1>10, <1>11 DEF Next, MailNext, vars, mailVars

-----------------------------------------------------------------------------
(* The calls of the calendar                                               *)

Asking == [stage: Stages, op: {"agenda", "create"}, url: Places \cup {Nowhere},
           end: {"none", "done", "failed"}, wrote: 0..2, odd: 0..1]

\* A call that goes on has written nothing, but for an event behind an odd answer
\* to its first attempt; a create that is done has.
GoodAsk(x) ==
    /\ x \in Asking
    /\ x.wrote <= 1 + x.odd
    /\ x.end = "done" /\ x.op = "create" => x.wrote >= 1
    /\ x.stage # "idle" => x.end = "none"
    /\ x.stage \notin {"idle", "again"} => x.wrote = 0
    /\ x.stage = "again" => x.wrote <= x.odd
    /\ x.stage = "query" => x.op = "agenda"

CalendarInv ==
    /\ calendarUrl \in Places \cup {Nowhere} /\ place \in Places
    /\ DOMAIN calendar = Askers
    /\ \A c \in Askers : GoodAsk(calendar[c])

EndedAsk(r, e, w) == [r EXCEPT !.stage = "idle", !.end = e, !.url = Nowhere, !.wrote = @ + w]
FailedAsk(r) == [r EXCEPT !.stage = "idle", !.end = "failed"]
StagedAsk(r, stage) == [r EXCEPT !.stage = stage]
AgainAsk(r, w, odd) == [r EXCEPT !.stage = "again", !.wrote = w, !.odd = odd]
PlacedAsk(r, stage, url) == [r EXCEPT !.stage = stage, !.url = url]

LEMMA EndedAsking ==
    ASSUME NEW r, GoodAsk(r), r.stage # "idle", NEW e \in {"done", "failed"}, NEW w \in 0..1,
           e = "done" /\ r.op = "create" => w = 1
    PROVE  GoodAsk(EndedAsk(r, e, w))
<1> PICK n : n = r.wrote + w
  OBVIOUS
<1>1. /\ r \in Asking /\ n \in 0..2 /\ n >= w
      /\ n <= 1 + r.odd
  <2>1. r.wrote \in 0..r.odd /\ r.odd \in 0..1 /\ r \in Asking
    BY DEF GoodAsk, Asking, Stages
  <2> QED
    BY <2>1
<1>2. EndedAsk(r, e, w) = [r EXCEPT !.stage = "idle", !.end = e, !.url = Nowhere, !.wrote = n]
  BY <1>1 DEF EndedAsk
<1> DEFINE s == [r EXCEPT !.stage = "idle", !.end = e, !.url = Nowhere, !.wrote = n]
<1>3. s \in Asking /\ s.stage = "idle" /\ s.end = e /\ s.wrote = n /\ s.op = r.op /\ s.odd = r.odd
  BY <1>1 DEF Asking, Stages
<1> HIDE DEF s
<1>4. GoodAsk(s)
  <2>1. s.end = "done" /\ s.op = "create" => n >= 1
    BY <1>1, <1>3
  <2> QED
    BY <1>1, <1>3, <2>1 DEF GoodAsk
<1> QED
  BY <1>2, <1>4 DEF s

LEMMA FailedAsking ==
    ASSUME NEW r, GoodAsk(r), r.stage # "idle"
    PROVE  GoodAsk(FailedAsk(r))
BY DEF GoodAsk, FailedAsk, Asking, Stages

LEMMA StagedAsking ==
    ASSUME NEW r, GoodAsk(r), r.stage # "idle", r.stage # "again", NEW stage \in {"home", "list"}
    PROVE  GoodAsk(StagedAsk(r, stage))
BY DEF GoodAsk, StagedAsk, Asking, Stages

LEMMA AgainAsking ==
    ASSUME NEW r, GoodAsk(r), r.stage = "put", NEW odd \in 0..1, NEW w \in 0..odd
    PROVE  GoodAsk(AgainAsk(r, w, odd))
<1>1. r \in Asking /\ r.end = "none" /\ w \in 0..2 /\ "again" \in Stages
  BY DEF GoodAsk, Stages
<1> DEFINE s == AgainAsk(r, w, odd)
<1>2. s \in Asking /\ s.stage = "again" /\ s.wrote = w /\ s.odd = odd /\ s.end = "none"
  BY <1>1 DEF AgainAsk, Asking
<1> HIDE DEF s
<1>3. GoodAsk(s)
  BY <1>2 DEF GoodAsk
<1> QED
  BY <1>3 DEF s

LEMMA PlacedAsking ==
    ASSUME NEW r, GoodAsk(r), r.stage \notin {"idle", "again"}, NEW url \in Places
    PROVE  GoodAsk(PlacedAsk(r, Use(r.op), url))
BY DEF GoodAsk, PlacedAsk, Asking, Stages, Use

\* Setting one call to one that is good is all that an action of an asker does.
LEMMA AskerKeeps ==
    ASSUME CalendarInv, NEW c \in Askers, NEW x, GoodAsk(x), calendar' = [calendar EXCEPT ![c] = x],
           calendarUrl' \in Places \cup {Nowhere}, UNCHANGED place
    PROVE  CalendarInv'
<1>1. \A d \in Askers : calendar'[d] = IF d = c THEN x ELSE calendar[d]
  BY DEF CalendarInv
<1>2. \A d \in Askers : GoodAsk(calendar'[d])
  BY <1>1 DEF CalendarInv
<1> QED
  BY <1>2 DEF CalendarInv

LEMMA EndKeeps ==
    ASSUME CalendarInv, NEW c \in Askers, calendar[c].stage # "idle",
           NEW e \in {"done", "failed"}, NEW w \in 0..1,
           e = "done" /\ calendar[c].op = "create" => w = 1, EndCalendar(c, e, w),
           calendarUrl' \in Places \cup {Nowhere}, UNCHANGED place
    PROVE  CalendarInv'
<1>1. calendar' = [calendar EXCEPT ![c] = EndedAsk(calendar[c], e, w)]
  BY DEF EndCalendar, EndedAsk
<1>2. GoodAsk(EndedAsk(calendar[c], e, w))
  BY EndedAsking DEF CalendarInv
<1> QED
  BY <1>1, <1>2, AskerKeeps

LEMMA BeginsAsking == ASSUME CalendarInv, NEW c \in Askers, CalendarStart(c) PROVE CalendarInv'
<1>1. PICK op \in {"agenda", "create"} : Start(c, op)
  BY DEF CalendarStart
<1> DEFINE call == Call0(op)
<1>2. GoodAsk(call) /\ call.stage = "principal" /\ call.op = op
  BY DEF GoodAsk, Asking, Stages, Call0
<1>3. UNCHANGED <<calendarUrl, place>> /\ calendarUrl \in Places \cup {Nowhere}
  BY <1>1 DEF Start, CalendarInv
<1>4. CASE calendarUrl = Nowhere
  BY <1>1, <1>2, <1>3, <1>4, AskerKeeps DEF Start
<1>5. CASE calendarUrl # Nowhere /\ Refuses(calendarUrl)
  <2> DEFINE x == FailedAsk(call)
  <2>1. calendar' = [calendar EXCEPT ![c] = x]
    BY <1>1, <1>5 DEF Start, FailedAsk
  <2>2. GoodAsk(x)
    BY <1>2, FailedAsking
  <2> QED
    BY <1>3, <2>1, <2>2, AskerKeeps
<1>6. CASE calendarUrl # Nowhere /\ ~Refuses(calendarUrl)
  <2> DEFINE x == PlacedAsk(call, Use(op), calendarUrl)
  <2>1. calendar' = [calendar EXCEPT ![c] = x]
    BY <1>1, <1>6 DEF Start, PlacedAsk
  <2>2. GoodAsk(x)
    BY <1>2, <1>3, <1>6, PlacedAsking
  <2> QED
    BY <1>3, <2>1, <2>2, AskerKeeps
<1> QED
  BY <1>4, <1>5, <1>6

LEMMA AskerSteps == ASSUME CalendarInv, NEW c \in Askers, CalendarStep(c) PROVE CalendarInv'
<1> DEFINE r == calendar[c]
<1>1. GoodAsk(r) /\ place \in Places /\ calendarUrl \in Places \cup {Nowhere}
  BY DEF CalendarInv
<1>2. CASE Found(c)
  <2>1. PICK stage \in {"home", "list"} : calendar' = [calendar EXCEPT ![c] = StagedAsk(r, stage)]
    BY <1>2 DEF Found, StagedAsk
  <2>2. r.stage \notin {"idle", "again"} /\ UNCHANGED <<calendarUrl, place>>
    BY <1>2 DEF Found
  <2>3. GoodAsk(StagedAsk(r, stage))
    BY <1>1, <2>2, StagedAsking
  <2> QED
    BY <1>1, <2>1, <2>2, <2>3, AskerKeeps
<1>3. CASE Listed(c)
  <2>1. r.stage = "list" /\ calendarUrl' = place /\ UNCHANGED place
    BY <1>3 DEF Listed
  <2>2. CASE Refuses(place)
    BY <1>1, <1>3, <2>1, <2>2, EndKeeps DEF Listed
  <2>3. CASE ~Refuses(place)
    <3>1. calendar' = [calendar EXCEPT ![c] = PlacedAsk(r, Use(r.op), place)]
      BY <1>3, <2>3 DEF Listed, PlacedAsk
    <3>2. GoodAsk(PlacedAsk(r, Use(r.op), place))
      BY <1>1, <2>1, PlacedAsking
    <3> QED
      BY <1>1, <2>1, <3>1, <3>2, AskerKeeps
  <2> QED
    BY <2>2, <2>3
<1>4. CASE (Conflict(c) \/ OddAnswer(c)) /\ r.stage = "put"
  <2>1. PICK odd \in 0..1, w \in 0..1 : w <= odd /\ TryAgain(c, w, odd)
    <3>1. CASE Conflict(c)
      <4>1. TryAgain(c, 0, 0)
        BY <3>1 DEF Conflict
      <4> QED
        BY <4>1
    <3>2. CASE OddAnswer(c)
      <4>1. PICK w \in 0..1 : TryAgain(c, w, 1)
        BY <3>2 DEF OddAnswer, MayWrite
      <4> QED
        BY <4>1
    <3> QED
      BY <1>4, <3>1, <3>2
  <2>2. calendar' = [calendar EXCEPT ![c] = AgainAsk(r, w, odd)]
    BY <1>4, <2>1 DEF TryAgain, AgainAsk
  <2>3. UNCHANGED <<calendarUrl, place>>
    BY <1>4 DEF Conflict, OddAnswer
  <2>4. GoodAsk(AgainAsk(r, w, odd))
    BY <1>1, <1>4, <2>1, AgainAsking
  <2> QED
    BY <1>1, <2>2, <2>3, <2>4, AskerKeeps
<1>5. CASE (Conflict(c) \/ OddAnswer(c)) /\ r.stage # "put"
  <2>1. PICK w \in 0..1 : EndCalendar(c, "failed", w)
    BY <1>5 DEF Conflict, OddAnswer, MayWrite, TryAgain
  <2>2. r.stage # "idle" /\ UNCHANGED <<calendarUrl, place>>
    BY <1>5 DEF Conflict, OddAnswer
  <2> QED
    BY <1>1, <2>1, <2>2, EndKeeps
<1>6. CASE Queried(c)
  <2>1. EndCalendar(c, "done", 0) /\ r.stage = "query" /\ UNCHANGED <<calendarUrl, place>>
    BY <1>6 DEF Queried
  <2>2. r.op # "create"
    BY <1>1, <2>1 DEF GoodAsk
  <2> QED
    BY <1>1, <2>1, <2>2, EndKeeps
<1>7. CASE Stored(c)
  <2>1. EndCalendar(c, "done", 1) /\ r.stage # "idle" /\ UNCHANGED <<calendarUrl, place>>
    BY <1>7 DEF Stored
  <2> QED
    BY <1>1, <2>1, EndKeeps
<1>8. CASE LookupFails(c) \/ Refused(c) \/ NoAnswer(c) \/ NotStored(c)
  <2>1. /\ EndCalendar(c, "failed", 0) \/ EndCalendar(c, "failed", 1)
        /\ r.stage # "idle" /\ UNCHANGED place /\ calendarUrl' \in {calendarUrl, Nowhere}
    BY <1>8 DEF LookupFails, Refused, NoAnswer, NotStored, MayWrite
  <2> QED
    BY <1>1, <2>1, EndKeeps
<1> QED
  BY <1>2, <1>3, <1>4, <1>5, <1>6, <1>7, <1>8 DEF CalendarStep

LEMMA CalendarKeeps == ASSUME CalendarInv, [Next]_vars PROVE CalendarInv'
<1>1. CASE UNCHANGED calendarVars
  BY <1>1 DEF calendarVars, CalendarInv
<1>2. CASE Move
  BY <1>2 DEF Move, CalendarInv
<1>3. ASSUME NEW c \in Askers, CalendarStart(c) \/ CalendarStep(c) PROVE CalendarInv'
  BY <1>3, BeginsAsking, AskerSteps
<1> QED
  BY <1>1, <1>2, <1>3 DEF Next, CalendarNext, vars

LEMMA CalendarBegins == CalendarInit => CalendarInv
<1> SUFFICES ASSUME CalendarInit PROVE CalendarInv
  OBVIOUS
<1> DEFINE x == [Call0("agenda") EXCEPT !.stage = "idle"]
<1>1. GoodAsk(x)
  <2>1. x = [stage |-> "idle", op |-> "agenda", url |-> Nowhere, end |-> "none", wrote |-> 0, odd |-> 0]
    BY DEF Call0
  <2> QED
    BY <2>1 DEF GoodAsk, Asking, Stages
<1>2. \A c \in Askers : calendar[c] = x
  BY DEF CalendarInit
<1> QED
  BY <1>1, <1>2 DEF CalendarInit, CalendarInv

-----------------------------------------------------------------------------
(* A completion                                                            *)

\* What a frame adds to the arguments of a call, and what a state holds of them.
Brings(f, i) == IF i \in DOMAIN f.tools /\ f.tools[i].arguments THEN 1 ELSE 0
BringsText(f) == IF f.text THEN 1 ELSE 0
ArgumentsIn(s, i) == IF i \in DOMAIN s.tools THEN s.tools[i].arguments ELSE <<>>

\* The state s has all that was said except what the frame f brings.
Lacks(s, f, now) ==
    /\ \E n \in Nat : s.content = FirstPieces(n) /\ now.text = n + BringsText(f)
    /\ \A i \in Indexes :
        \E n \in Nat : ArgumentsIn(s, i) = FirstPieces(n) /\ now.pieces[i] = n + Brings(f, i)
    /\ DOMAIN s.tools \cup DOMAIN f.tools = now.calls
    /\ now.calls \subseteq Indexes

\* While a response is read, only the line that is pending is not in the state yet;
\* after [DONE] was said nothing but [DONE] can be pending.
CompletionInv ==
    /\ pending \in Frames \cup {NoLine}
    /\ reading = "open" => Lacks(state, pending, said) /\ (said.over => pending.kind = "DONE")
    /\ AnswerAsSaid

LEMMA NoPieces == FirstPieces(0) = <<>>
BY DEF FirstPieces

LEMMA LengthOfPieces == ASSUME NEW n \in Nat PROVE Len(FirstPieces(n)) = n
BY DEF FirstPieces

LEMMA NextPiece ==
    ASSUME NEW n \in Nat
    PROVE  Append(FirstPieces(n), n + 1) = FirstPieces(n + 1)
BY DEF FirstPieces

LEMMA FrameParts ==
    ASSUME NEW f \in Frames \cup {NoLine}
    PROVE  /\ f.text \in BOOLEAN /\ DOMAIN f.tools \subseteq Indexes
           /\ \A i \in DOMAIN f.tools : f.tools[i].arguments \in BOOLEAN
           /\ f.kind # "delta" => f.text = FALSE /\ DOMAIN f.tools = {}
<1>1. DOMAIN <<>> = {}
  OBVIOUS
<1>2. CASE f \in [kind: {"delta"}, text: BOOLEAN, tools: Deltas]
  <2>1. f.tools \in Deltas /\ f.kind = "delta" /\ f.text \in BOOLEAN
    BY <1>2
  <2>2. PICK S \in SUBSET Indexes : f.tools \in [S -> Delta]
    BY <2>1 DEF Deltas
  <2>3. \A i \in S : f.tools[i] \in Delta
    BY <2>2
  <2> QED
    BY <2>1, <2>2, <2>3 DEF Delta
<1>3. CASE f \in [kind: {"error", "nothing", "DONE"}, text: {FALSE}, tools: {<<>>}]
  BY <1>1, <1>3
<1>4. CASE f = NoLine
  BY <1>1, <1>4 DEF NoLine
<1> QED
  BY <1>2, <1>3, <1>4 DEF Frames

\* The provider says one frame more.
LEMMA SaidIsLacking ==
    ASSUME NEW s, NEW now, NEW f \in Frames, Lacks(s, NoLine, now), now = said
    PROVE  Lacks(s, f, HeardOf(f))
<1> DEFINE next == HeardOf(f)
<1>1. NoLine.text = FALSE /\ DOMAIN NoLine.tools = {}
  BY DEF NoLine
<1>2. DOMAIN f.tools \subseteq Indexes
  BY FrameParts
<1>3. next.text = now.text + BringsText(f)
  <2>1. PICK n \in Nat : now.text = n + BringsText(NoLine)
    BY DEF Lacks
  <2> QED
    BY <1>1, <2>1 DEF HeardOf, BringsText
<1>4. \A i \in Indexes : next.pieces[i] = now.pieces[i] + Brings(f, i)
  <2> SUFFICES ASSUME NEW i \in Indexes PROVE next.pieces[i] = now.pieces[i] + Brings(f, i)
    OBVIOUS
  <2>1. PICK n \in Nat : now.pieces[i] = n + Brings(NoLine, i)
    BY DEF Lacks
  <2>2. now.pieces[i] \in Nat
    BY <1>1, <2>1 DEF Brings
  <2> QED
    BY <2>2 DEF HeardOf, Brings
<1>5. next.calls = now.calls \cup DOMAIN f.tools
  BY DEF HeardOf
<1>6. \E n \in Nat : s.content = FirstPieces(n) /\ next.text = n + BringsText(f)
  <2>1. PICK n \in Nat : s.content = FirstPieces(n) /\ now.text = n + BringsText(NoLine)
    BY DEF Lacks
  <2>2. now.text = n
    BY <1>1, <2>1 DEF BringsText
  <2> QED
    BY <1>3, <2>1, <2>2
<1>7. ASSUME NEW i \in Indexes
      PROVE  \E n \in Nat : ArgumentsIn(s, i) = FirstPieces(n) /\ next.pieces[i] = n + Brings(f, i)
  <2>1. PICK n \in Nat : ArgumentsIn(s, i) = FirstPieces(n) /\ now.pieces[i] = n + Brings(NoLine, i)
    BY DEF Lacks
  <2>2. now.pieces[i] = n
    BY <1>1, <2>1 DEF Brings
  <2> QED
    BY <1>4, <2>1, <2>2
<1>8. DOMAIN s.tools \cup DOMAIN f.tools = next.calls /\ next.calls \subseteq Indexes
  BY <1>1, <1>2, <1>5 DEF Lacks
<1> QED
  BY <1>6, <1>7, <1>8 DEF Lacks

\* _apply_event brings the state up to what was said.
LEMMA AppliedIsWhole ==
    ASSUME NEW f \in Frames, NEW now, Lacks(state, f, now)
    PROVE  Lacks(Applied(f, now), NoLine, now)
<1> DEFINE s == Applied(f, now)
<1>1. NoLine.text = FALSE /\ DOMAIN NoLine.tools = {}
  BY DEF NoLine
<1>2. /\ f.text \in BOOLEAN /\ DOMAIN f.tools \subseteq Indexes
      /\ \A i \in DOMAIN f.tools : f.tools[i].arguments \in BOOLEAN
  BY FrameParts
<1>3. s.content = FirstPieces(now.text) /\ now.text \in Nat
  <2>1. PICK n \in Nat : state.content = FirstPieces(n) /\ now.text = n + BringsText(f)
    BY DEF Lacks
  <2>2. CASE f.text
    <3>1. now.text = n + 1
      BY <2>1, <2>2 DEF BringsText
    <3>2. s.content = Append(FirstPieces(n), n + 1)
      BY <2>1, <2>2, <3>1 DEF Applied
    <3> QED
      BY <3>1, <3>2, NextPiece
  <2>3. CASE ~f.text
    BY <2>1, <2>3 DEF BringsText, Applied
  <2> QED
    BY <2>2, <2>3
<1>4. s.tools = Accumulated(f.tools, now)
  BY DEF Applied
<1>5. DOMAIN s.tools = DOMAIN state.tools \cup DOMAIN f.tools
  BY <1>4 DEF Accumulated
<1>6. ASSUME NEW i \in Indexes
      PROVE  ArgumentsIn(s, i) = FirstPieces(now.pieces[i]) /\ now.pieces[i] \in Nat
  <2>1. PICK n \in Nat : ArgumentsIn(state, i) = FirstPieces(n) /\ now.pieces[i] = n + Brings(f, i)
    BY DEF Lacks
  <2>2. ArgumentsIn(state, i) = Slot(i).arguments
    BY DEF ArgumentsIn, Slot, NoSlot
  <2>3. CASE i \in DOMAIN f.tools
    <3>1. s.tools[i].arguments =
            IF f.tools[i].arguments THEN Append(Slot(i).arguments, now.pieces[i]) ELSE Slot(i).arguments
      BY <1>4, <2>3 DEF Accumulated
    <3>2. ArgumentsIn(s, i) = s.tools[i].arguments
      BY <1>5, <2>3 DEF ArgumentsIn
    <3>3. CASE f.tools[i].arguments
      <4>1. Brings(f, i) = 1
        BY <2>3, <3>3 DEF Brings
      <4>2. ArgumentsIn(s, i) = Append(FirstPieces(n), n + 1)
        BY <2>1, <2>2, <3>1, <3>2, <3>3, <4>1
      <4>3. now.pieces[i] = n + 1
        BY <2>1, <4>1
      <4>4. ArgumentsIn(s, i) = FirstPieces(n + 1)
        BY <4>2, NextPiece
      <4> QED
        BY <4>3, <4>4
    <3>4. CASE ~f.tools[i].arguments
      <4>1. Brings(f, i) = 0
        BY <3>4 DEF Brings
      <4>2. now.pieces[i] = n
        BY <2>1, <4>1
      <4>3. ArgumentsIn(s, i) = FirstPieces(n)
        BY <2>1, <2>2, <3>1, <3>2, <3>4
      <4> QED
        BY <4>2, <4>3
    <3> QED
      BY <3>3, <3>4
  <2>4. CASE i \notin DOMAIN f.tools
    <3>1. ArgumentsIn(s, i) = ArgumentsIn(state, i)
      BY <1>4, <1>5, <2>4 DEF Accumulated, ArgumentsIn
    <3> QED
      BY <2>1, <2>4, <3>1 DEF Brings
  <2> QED
    BY <2>3, <2>4
<1>7. \E n \in Nat : s.content = FirstPieces(n) /\ now.text = n + BringsText(NoLine)
  BY <1>1, <1>3 DEF BringsText
<1>8. ASSUME NEW i \in Indexes
      PROVE  \E n \in Nat : ArgumentsIn(s, i) = FirstPieces(n) /\ now.pieces[i] = n + Brings(NoLine, i)
  BY <1>1, <1>6 DEF Brings
<1>9. DOMAIN s.tools \cup DOMAIN NoLine.tools = now.calls /\ now.calls \subseteq Indexes
  BY <1>1, <1>5 DEF Lacks
<1> QED
  BY <1>7, <1>8, <1>9 DEF Lacks

\* A frame without text and calls leaves the state whole.
LEMMA NothingLacks ==
    ASSUME NEW s, NEW now, NEW f \in Frames \cup {NoLine}, f.kind # "delta"
    PROVE  Lacks(s, f, now) <=> Lacks(s, NoLine, now)
<1>1. NoLine.text = FALSE /\ DOMAIN NoLine.tools = {}
  BY DEF NoLine
<1>2. f.text = FALSE /\ DOMAIN f.tools = {}
  BY FrameParts
<1> QED
  BY <1>1, <1>2 DEF Lacks, Brings, BringsText

\* _finish takes a state as the answer only if its calls are complete.
LEMMA FinishedAsSaid ==
    ASSUME NEW s, NEW now, NEW f \in Frames \cup {NoLine},
           Lacks(s, f, now), now.over => f.kind # "delta",
           state' = s, said' = now, reading' = Finishes(s)
    PROVE  AnswerAsSaid'
<1> SUFFICES ASSUME Finishes(s) = "answered"
             PROVE  /\ \A i \in DOMAIN s.tools :
                        /\ s.tools[i].id /\ s.tools[i].name
                        /\ s.tools[i].arguments \in {<<>>, FirstPieces(Pieces[i])}
                    /\ s.content = FirstPieces(Len(s.content))
                    /\ now.over =>
                        /\ Len(s.content) = now.text
                        /\ DOMAIN s.tools = now.calls
                        /\ \A i \in now.calls : Len(s.tools[i].arguments) = now.pieces[i]
  BY DEF AnswerAsSaid
<1>1. \A i \in DOMAIN s.tools :
        s.tools[i].id /\ s.tools[i].name /\ s.tools[i].arguments \in {<<>>, FirstPieces(Pieces[i])}
  BY DEF Finishes, IsObject
<1>2. s.content = FirstPieces(Len(s.content))
  BY LengthOfPieces DEF Lacks
<1>3. ASSUME now.over
      PROVE  /\ Len(s.content) = now.text
             /\ DOMAIN s.tools = now.calls
             /\ \A i \in now.calls : Len(s.tools[i].arguments) = now.pieces[i]
  <2>1. f.text = FALSE /\ DOMAIN f.tools = {}
    BY <1>3, FrameParts
  <2>2. Len(s.content) = now.text
    BY <2>1, LengthOfPieces DEF Lacks, BringsText
  <2>3. DOMAIN s.tools = now.calls /\ now.calls \subseteq Indexes
    BY <2>1 DEF Lacks
  <2>4. ASSUME NEW i \in now.calls PROVE Len(s.tools[i].arguments) = now.pieces[i]
    <3>1. PICK n \in Nat : ArgumentsIn(s, i) = FirstPieces(n) /\ now.pieces[i] = n + Brings(f, i)
      BY <2>3, <2>4 DEF Lacks
    <3>2. s.tools[i].arguments = FirstPieces(n) /\ now.pieces[i] = n
      <4>1. Brings(f, i) = 0
        BY <2>1 DEF Brings
      <4>2. ArgumentsIn(s, i) = s.tools[i].arguments
        BY <2>3, <2>4 DEF ArgumentsIn
      <4> QED
        BY <3>1, <4>1, <4>2
    <3> QED
      BY <3>2, LengthOfPieces
  <2> QED
    BY <2>2, <2>3, <2>4
<1> QED
  BY <1>1, <1>2, <1>3

LEMMA FinishesSays == ASSUME NEW s PROVE Finishes(s) \in {"answered", "failed"}
BY DEF Finishes

\* A line is read that is all that the state lacks.
LEMMA IngestKeeps ==
    ASSUME NEW f \in Frames, NEW now, reading = "open",
           Lacks(state, f, now), now.over => f.kind = "DONE",
           Ingest(f, now), said' = now
    PROVE  CompletionInv'
<1>1. pending' = NoLine /\ NoLine.kind = "none"
  BY DEF Ingest, NoLine
<1>2. f.kind \in {"delta", "error", "nothing", "DONE"}
  BY DEF Frames
<1>3. CASE f.kind = "DONE"
  <2>1. reading' = Finishes(state) /\ state' = state
    BY <1>3 DEF Ingest
  <2>2. PICK s : s = state
    OBVIOUS
  <2>3. AnswerAsSaid'
    BY <1>3, <2>1, <2>2, FinishedAsSaid
  <2>4. reading' # "open"
    BY <2>1, FinishesSays
  <2> QED
    BY <1>1, <2>3, <2>4 DEF CompletionInv
<1>4. CASE f.kind = "error"
  <2>1. reading' = "failed"
    BY <1>4 DEF Ingest
  <2> QED
    BY <1>1, <2>1 DEF CompletionInv, AnswerAsSaid
<1>5. CASE f.kind = "nothing"
  <2>1. reading' = "open" /\ state' = state
    BY <1>5 DEF Ingest
  <2>2. Lacks(state, NoLine, now) /\ ~now.over
    BY <1>5, NothingLacks
  <2>3. Lacks(state, pending, said)'
    BY <1>1, <2>1, <2>2 DEF Lacks, BringsText, Brings, ArgumentsIn
  <2> QED
    BY <1>1, <2>1, <2>2, <2>3 DEF CompletionInv, AnswerAsSaid
<1>6. CASE f.kind = "delta"
  <2>1. reading' = "open" /\ state' = Applied(f, now)
    BY <1>6 DEF Ingest
  <2>2. PICK s : s = Applied(f, now)
    OBVIOUS
  <2>3. Lacks(s, NoLine, now) /\ ~now.over
    BY <1>6, <2>2, AppliedIsWhole
  <2>4. Lacks(state, pending, said)'
    BY <1>1, <2>1, <2>2, <2>3 DEF Lacks, BringsText, Brings, ArgumentsIn
  <2> QED
    BY <1>1, <2>1, <2>3, <2>4 DEF CompletionInv, AnswerAsSaid
<1> QED
  BY <1>2, <1>3, <1>4, <1>5, <1>6

LEMMA ChunkKeeps == ASSUME CompletionInv, NEW f \in Frames, Chunk(f) PROVE CompletionInv'
<1> PICK now : now = HeardOf(f)
  OBVIOUS
<1>1. /\ reading = "open" /\ pending = NoLine /\ ~said.over /\ said' = now
      /\ Lacks(state, NoLine, said)
  BY DEF Chunk, MaySay, CompletionInv
<1>2. Lacks(state, f, now) /\ (now.over => f.kind = "DONE")
  <2>1. Lacks(state, f, now)
    BY <1>1, SaidIsLacking
  <2> QED
    BY <2>1 DEF HeardOf
<1>3. CASE Ingest(f, now)
  BY <1>1, <1>2, <1>3, IngestKeeps
<1>4. CASE pending' = f /\ UNCHANGED <<reading, state>>
  <2>1. Lacks(state, pending, said)'
    BY <1>1, <1>2, <1>4 DEF Lacks, BringsText, Brings, ArgumentsIn
  <2> QED
    BY <1>1, <1>2, <1>4, <2>1 DEF CompletionInv, AnswerAsSaid
<1> QED
  BY <1>3, <1>4 DEF Chunk

LEMMA RestKeeps == ASSUME CompletionInv, Rest PROVE CompletionInv'
<1> PICK f, now : f = pending /\ now = said
  OBVIOUS
<1>1. f \in Frames /\ reading = "open" /\ Ingest(f, now) /\ said' = now
  BY DEF Rest, CompletionInv
<1>2. Lacks(state, f, now) /\ (now.over => f.kind = "DONE")
  BY <1>1 DEF CompletionInv
<1> QED
  BY <1>1, <1>2, IngestKeeps

LEMMA EndsKeeps == ASSUME CompletionInv, ResponseEnds PROVE CompletionInv'
<1> PICK f, now, s : f = pending /\ now = said /\ s = state'
  OBVIOUS
<1>1. reading = "open" /\ said' = now /\ pending' = NoLine /\ state' = s
  BY DEF ResponseEnds
<1>2. f \in Frames \cup {NoLine} /\ Lacks(state, f, now) /\ (now.over => f.kind = "DONE")
  BY <1>1 DEF CompletionInv
<1>3. CASE reading' = Finishes(state) /\ UNCHANGED state
  <2>1. Lacks(s, f, now) /\ reading' = Finishes(s)
    BY <1>1, <1>2, <1>3
  <2>2. AnswerAsSaid'
    BY <1>1, <1>2, <2>1, FinishedAsSaid
  <2> QED
    BY <1>1, <2>1, <2>2, FinishesSays DEF CompletionInv
<1>4. CASE reading' = "failed"
  BY <1>1, <1>4 DEF CompletionInv, AnswerAsSaid
<1>5. CASE /\ pending.kind = "delta"
           /\ state' = Applied(pending, said) /\ reading' = Finishes(state')
  <2>1. f \in Frames
    BY <1>2, <1>5 DEF NoLine
  <2>2. Lacks(s, NoLine, now)
    BY <1>1, <1>2, <1>5, <2>1, AppliedIsWhole
  <2>3. reading' = Finishes(s) /\ NoLine.kind # "delta"
    BY <1>1, <1>5 DEF NoLine
  <2>4. AnswerAsSaid'
    BY <1>1, <2>2, <2>3, FinishedAsSaid
  <2> QED
    BY <1>1, <2>3, <2>4, FinishesSays DEF CompletionInv
<1> QED
  BY <1>3, <1>4, <1>5 DEF ResponseEnds

LEMMA RequestKeeps == ASSUME Complete PROVE CompletionInv'
<1>1. /\ reading' \in {"open", "failed"} /\ pending' = NoLine
      /\ state' = Fresh /\ said' = Silent
  BY DEF Complete
<1>2. NoLine.text = FALSE /\ DOMAIN NoLine.tools = {} /\ DOMAIN Fresh.tools = {}
  BY DEF NoLine, Fresh
<1>3. Lacks(Fresh, NoLine, Silent)
  BY <1>2, NoPieces DEF Lacks, BringsText, Brings, ArgumentsIn, Fresh, Silent
<1>4. Lacks(state, pending, said)' /\ ~said'.over
  BY <1>1, <1>3 DEF Lacks, BringsText, Brings, ArgumentsIn, Silent
<1> QED
  BY <1>1, <1>4 DEF CompletionInv, AnswerAsSaid

LEMMA CompletionKeeps == ASSUME CompletionInv, [Next]_vars PROVE CompletionInv'
<1>1. CASE UNCHANGED completionVars
  BY <1>1 DEF completionVars, CompletionInv, AnswerAsSaid, Lacks, BringsText, Brings, ArgumentsIn
<1>2. ASSUME ConnectionBreaks PROVE CompletionInv'
  BY <1>2 DEF ConnectionBreaks, CompletionInv, AnswerAsSaid
<1>3. CASE CompletionNext
  BY <1>2, <1>3, RequestKeeps, ChunkKeeps, RestKeeps, EndsKeeps DEF CompletionNext
<1> QED
  BY <1>1, <1>3 DEF Next, vars

LEMMA CompletionBegins == CompletionInit => CompletionInv
BY DEF CompletionInit, CompletionInv, AnswerAsSaid

-----------------------------------------------------------------------------
(* Theorems                                                                *)

\* Every call of either service is good in every state, for any number of
\* callers, faults, logins and moves.
THEOREM Invariance == FairSpec => [](MailInv /\ CalendarInv)
<1>1. Init => MailInv /\ CalendarInv
  BY MailBegins, CalendarBegins DEF Init
<1>2. MailInv /\ CalendarInv /\ [Next]_vars => (MailInv /\ CalendarInv)'
  BY MailKeeps, CalendarKeeps
<1> QED
  BY <1>1, <1>2, PTL DEF FairSpec

\* A change that the person confirmed is made at most once, whatever answer was
\* lost or refused, unless the calendar gave an odd answer; when they read that it
\* was made it was (apply, draft, _json, create, _put_new).
THEOREM WritesOnce == FairSpec => []WrittenOnce
<1>1. MailInv /\ CalendarInv => WrittenOnce
  BY DEF MailInv, CalendarInv, WrittenOnce, Good, GoodAsk
<1> QED
  BY <1>1, Invariance, PTL

\* A login is lost only to a refresh that was under way when it was saved
\* (_access_token, _store_grant).
THEOREM KeepsLogin == FairSpec => []LoginStands
<1>1. MailInv => LoginStands
  BY DEF MailInv
<1> QED
  BY <1>1, Invariance, PTL

\* A batch is filed only if every message of it says what the preview showed
\* (apply).
THEOREM FilesWhatWasShown == FairSpec => FiledAsShown
<1>1. ASSUME MailInv, [Next]_vars, NEW c \in Callers,
             mail[c].batch # NoBatch, mail'[c].wrote > mail[c].wrote
      PROVE  \A m \in DOMAIN mail[c].batch : Says[m] = mail[c].batch[m]
  <2>1. Good(mail[c]) /\ mail[c].step # "idle" /\ mail[c].wrote = 0
    BY <1>1 DEF MailInv, Good
  <2>2. CASE mail[c].what # "check"
    BY <1>1, <2>1, <2>2 DEF Good, AsShown
  <2>3. CASE mail[c].what = "check"
    <3>1. mail'[c].wrote = 0
      BY <1>1, <2>1, <2>3, ChecksWriteNothing
    <3> QED
      BY <1>1, <2>1, <3>1
  <2> QED
    BY <2>2, <2>3
<1>2. MailInv /\ [Next]_vars => FilesAsShown
  BY <1>1 DEF FilesAsShown
<1> QED
  BY <1>2, Invariance, PTL DEF FairSpec, FiledAsShown

\* Pieces are never lost, doubled or mixed up between a provider and the answer that
\* is taken, wherever its response is cut or ends: for any number of calls, pieces
\* and responses (_accumulate_stream, _ingest, flush, _finish).
THEOREM AnswersAsSaid == FairSpec => []AnswerAsSaid
<1>1. Init => CompletionInv
  BY CompletionBegins DEF Init
<1>2. CompletionInv /\ [Next]_vars => CompletionInv'
  BY CompletionKeeps
<1>3. CompletionInv => AnswerAsSaid
  BY DEF CompletionInv
<1> QED
  BY <1>1, <1>2, <1>3, PTL DEF FairSpec
=============================================================================
