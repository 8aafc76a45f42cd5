------------------------------ MODULE Services ------------------------------
(***************************************************************************)
(* The outside services as the tasks of the gateway use them: Gmail (Mail),*)
(* the shared calendar (Calendar) and the language model (Completion).     *)
(* Their clients share no state, so what can happen to one while another   *)
(* is used is what can happen to it alone: a behaviour is about one of     *)
(* them.                                                                   *)
(***************************************************************************)
EXTENDS Mail, Calendar, Completion

VARIABLE service   \* the service this behaviour is about

vars == <<service, mailVars, calendarVars, completionVars>>

TypeOK ==
    /\ service \in {"mail", "calendar", "model"}
    /\ MailTypeOK /\ CalendarTypeOK /\ CompletionTypeOK

Init == service \in {"mail", "calendar", "model"} /\ MailInit /\ CalendarInit /\ CompletionInit

MailNext == MailAround \/ \E c \in Callers : MailStart(c) \/ MailStep(c)
CalendarNext == Move \/ \E c \in Askers : CalendarStart(c) \/ CalendarStep(c)

Next ==
    /\ UNCHANGED service
    /\ \/ service = "mail" /\ MailNext /\ UNCHANGED <<calendarVars, completionVars>>
       \/ service = "calendar" /\ CalendarNext /\ UNCHANGED <<mailVars, completionVars>>
       \/ service = "model" /\ CompletionNext /\ UNCHANGED <<mailVars, calendarVars>>

\* A task that waits for an answer gets one, or the timeout ends the wait: 20
\* seconds for a request to Gmail, 30 for a call of the calendar.
FairSpec ==
    /\ Init /\ [][Next]_vars
    /\ \A c \in Callers :
        WF_vars(service = "mail" /\ MailStep(c) /\ UNCHANGED <<service, calendarVars, completionVars>>)
    /\ \A c \in Askers :
        WF_vars(service = "calendar" /\ CalendarStep(c) /\ UNCHANGED <<service, mailVars, completionVars>>)

-----------------------------------------------------------------------------
(* Properties                                                              *)

\* A change that the person confirmed is made at most once, whatever answer
\* was lost or refused, unless the calendar answered a new event with a status
\* that is neither a success nor an error to the client; and when they read that
\* it was made it was (apply, draft, _json, create, _put_new).
WrittenOnce ==
    /\ \A c \in Callers : mail[c].wrote <= 1 /\ (mail[c].end = "done" => mail[c].wrote = 1)
    /\ \A c \in Askers :
        /\ calendar[c].wrote <= 1 + calendar[c].odd
        /\ calendar[c].end = "done" /\ calendar[c].op = "create" => calendar[c].wrote >= 1

\* "A mismatch changes nothing": messages are filed as the whole batch of one
\* confirmed preview, and each says what that preview shows (apply).
FilesAsShown ==
    \A c \in Callers :
        mail[c].batch # NoBatch /\ mail'[c].wrote > mail[c].wrote =>
            \A m \in DOMAIN mail[c].batch : Says[m] = mail[c].batch[m]
FiledAsShown == [][FilesAsShown]_vars

\* A login is lost only to a refresh that was under way when it was saved
\* (_access_token reads the grant, _store_grant saves it after the answer).
LoginStands == token.grant = newest \/ raced

\* No call hangs, however often Gmail refuses the access token and however the
\* calendar moves (_json, _put_new).
CallsEnd ==
    /\ \A c \in Callers : []<>(mail[c].step = "idle")
    /\ \A c \in Askers : []<>(calendar[c].stage = "idle")

\* An agenda that ends was read, unless the cache holds one of these addresses.
AgendaEndsWell(but) ==
    \A c \in Askers :
        /\ calendar[c].op = "agenda" /\ calendar[c].stage # "idle"
        /\ calendar'[c].stage = "idle"
        => calendar'[c].end = "done" \/ calendarUrl' \in but

\* Once the calendar stays where it is and its server answers, the agenda is
\* read again. Only what stays in the cache stands in the way for good: an address
\* that guard_url refuses, and one the calendar has left that answers nothing
\* (_query, _collection).
AgendaComesBack == <>[][AgendaEndsWell(Foreign \cup (Mute \ {place}))]_vars

\* A completion that was taken as an answer is what the model said: up to [DONE]
\* every piece of the text and of the arguments of each call, in its order and
\* under its call. Nothing of it runs half: a call has its id, its name and all of
\* its arguments or none (_accumulate_stream, _finish). Without [DONE] the answer
\* may lack its last frames.
AnswerAsSaid ==
    reading = "answered" =>
        /\ \A i \in DOMAIN state.tools :
            /\ state.tools[i].id /\ state.tools[i].name
            /\ state.tools[i].arguments \in {<<>>, FirstPieces(Pieces[i])}
        /\ state.content = FirstPieces(Len(state.content))
        /\ said.over =>
            /\ Len(state.content) = said.text
            /\ DOMAIN state.tools = said.calls
            /\ \A i \in said.calls : Len(state.tools[i].arguments) = said.pieces[i]
-----------------------------------------------------------------------------
(* What comments say and the code does not do                              *)

\* "Writes are a single new event" (calendar/client.py:1).
SingleNewEvent == \A c \in Askers : calendar[c].wrote <= 1

\* "The calendar moved or was deleted; look it up again next time", also if the
\* old address does not answer (calendar/client.py:200).
AgendaFollows == <>[][AgendaEndsWell(Foreign)]_vars
=============================================================================
