----------------------------- MODULE Completion -----------------------------
(***************************************************************************)
(* One streamed completion (inference/client.py, inference/sse.py): the    *)
(* provider says its answer in frames, which arrive cut anywhere, and the  *)
(* client puts the text and the tool calls together again.                 *)
(*                                                                         *)
(* Lines are read one after another, however many a chunk holds: here a    *)
(* chunk is one line, or the first half of one. Text and the arguments of  *)
(* a call are sequences of numbered pieces; arguments of which only some   *)
(* arrived are no JSON. What a frame says beside text and calls (usage,    *)
(* thinking, comments) changes nothing here.                               *)
(***************************************************************************)
EXTENDS Naturals, Sequences, FiniteSets

CONSTANTS
    Indexes,      \* tool calls the provider may make
    Pieces,       \* in how many pieces it sends the arguments of each
    MaxText       \* bound: pieces of text

ASSUME PiecesAssumption == Indexes \subseteq Nat /\ Pieces \in [Indexes -> Nat]
ASSUME MaxTextAssumption == MaxText \in Nat

VARIABLES
    reading,      \* is there a response, and what became of the last one
    pending,      \* SSEBuffer._pending: half a line, or none
    state,        \* _StreamState
    said          \* external: what the provider said in this response

completionVars == <<reading, pending, state, said>>

\* The parts of one tool delta.
Delta == [id: BOOLEAN, name: BOOLEAN, arguments: BOOLEAN]
Deltas == UNION {[S -> Delta] : S \in SUBSET Indexes}
Frames == [kind: {"delta"}, text: BOOLEAN, tools: Deltas]
          \cup [kind: {"error", "nothing", "DONE"}, text: {FALSE}, tools: {<<>>}]
NoLine == [kind |-> "none", text |-> FALSE, tools |-> <<>>]

NoSlot == [id |-> FALSE, name |-> FALSE, arguments |-> <<>>]

CompletionTypeOK ==
    /\ reading \in {"idle", "open", "answered", "failed"}
    /\ pending \in Frames \cup {NoLine}
    /\ said.text \in 0..MaxText /\ said.calls \subseteq Indexes /\ said.over \in BOOLEAN
    /\ said.pieces \in [Indexes -> Nat] /\ \A i \in Indexes : said.pieces[i] <= Pieces[i]
    /\ state.content \in Seq(1..MaxText)
    /\ DOMAIN state.tools \subseteq Indexes
    /\ \A i \in DOMAIN state.tools : state.tools[i].arguments \in Seq(1..Pieces[i])

Fresh == [content |-> <<>>, tools |-> <<>>]
Silent == [text |-> 0, pieces |-> [i \in Indexes |-> 0], calls |-> {}, over |-> FALSE]

CompletionInit ==
    /\ reading = "idle" /\ pending = NoLine
    /\ state = Fresh /\ said = Silent

-----------------------------------------------------------------------------
(* The provider                                                            *)

\* The frame says the next piece of text, or of the arguments of a call. It may
\* be the last whatever has been said: an answer that reached max_tokens ends in
\* the middle of a call.
MaySay(f) ==
    /\ ~said.over
    /\ f.text => said.text < MaxText
    /\ \A i \in DOMAIN f.tools : f.tools[i].arguments => said.pieces[i] < Pieces[i]

HeardOf(f) ==
    [text |-> IF f.text THEN said.text + 1 ELSE said.text,
     pieces |-> [i \in Indexes |->
        IF i \in DOMAIN f.tools /\ f.tools[i].arguments THEN said.pieces[i] + 1 ELSE said.pieces[i]],
     calls |-> said.calls \cup DOMAIN f.tools,
     over |-> f.kind = "DONE"]

-----------------------------------------------------------------------------
(* The client                                                              *)

\* setdefault
Slot(i) == IF i \in DOMAIN state.tools THEN state.tools[i] ELSE NoSlot

\* _accumulate_tool_deltas; the piece a delta brings is the last that was said.
Accumulated(deltas, now) ==
    [i \in DOMAIN state.tools \cup DOMAIN deltas |->
        IF i \notin DOMAIN deltas THEN state.tools[i]
        ELSE [id |-> Slot(i).id \/ deltas[i].id,
              name |-> Slot(i).name \/ deltas[i].name,
              arguments |-> IF deltas[i].arguments THEN Append(Slot(i).arguments, now.pieces[i])
                            ELSE Slot(i).arguments]]

\* _apply_event
Applied(f, now) ==
    [content |-> IF f.text THEN Append(state.content, now.text) ELSE state.content,
     tools   |-> Accumulated(f.tools, now)]

\* _assert_json_object: nothing at all stands for {}.
FirstPieces(n) == [k \in 1..n |-> k]
IsObject(arguments, i) == arguments \in {<<>>, FirstPieces(Pieces[i])}

\* _finish
Finishes(s) ==
    IF \A i \in DOMAIN s.tools :
        s.tools[i].id /\ s.tools[i].name /\ IsObject(s.tools[i].arguments, i)
    THEN "answered" ELSE "failed"

\* _ingest: one line of the response, complete; now is what has been said with it.
Ingest(f, now) ==
    /\ pending' = NoLine
    /\ CASE f.kind = "DONE"    -> reading' = Finishes(state) /\ UNCHANGED state
         [] f.kind = "error"   -> reading' = "failed" /\ UNCHANGED state
         [] f.kind = "nothing" -> UNCHANGED <<reading, state>>
         [] OTHER              -> state' = Applied(f, now) /\ UNCHANGED reading

\* complete: the request; Fireworks may be out of reach or refuse it.
Complete ==
    /\ reading # "open"
    /\ reading' \in {"open", "failed"}
    /\ pending' = NoLine /\ state' = Fresh /\ said' = Silent

\* A chunk arrives that ends with a line, or within one.
Chunk(f) ==
    /\ reading = "open" /\ pending = NoLine /\ MaySay(f)
    /\ said' = HeardOf(f)
    /\ \/ Ingest(f, HeardOf(f))
       \/ pending' = f /\ UNCHANGED <<reading, state>>

\* (Bug) The half of a line that came before is forgotten.
RestForgotten ==
    /\ reading = "open" /\ pending # NoLine
    /\ pending' = NoLine /\ UNCHANGED <<reading, state, said>>

\* The rest of the line.
Rest ==
    /\ reading = "open" /\ pending # NoLine
    /\ Ingest(pending, said) /\ UNCHANGED said

\* The response ends and flush reads what is pending: only its line end may be
\* missing; it may be cut before there is any data, and is skipped; or within it,
\* which is no JSON.
ResponseEnds ==
    /\ reading = "open" /\ UNCHANGED said /\ pending' = NoLine
    /\ \/ reading' = Finishes(state) /\ UNCHANGED state
       \/ pending # NoLine /\ reading' = "failed" /\ UNCHANGED state
       \/ /\ pending.kind = "delta"
          /\ state' = Applied(pending, said) /\ reading' = Finishes(state')
       \/ pending.kind = "error" /\ reading' = "failed" /\ UNCHANGED state

\* A timeout or a dropped connection.
ConnectionBreaks ==
    /\ reading = "open" /\ reading' = "failed"
    /\ pending' = NoLine /\ UNCHANGED <<state, said>>

CompletionNext ==
    \/ Complete
    \/ \E f \in Frames : Chunk(f)
    \/ Rest \/ ResponseEnds \/ ConnectionBreaks
=============================================================================
