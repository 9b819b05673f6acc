------------------------------ MODULE Encoders ------------------------------
(***************************************************************************)
(* Texts on their way to the embedder and vectors on their way back.       *)
(*                                                                         *)
(*   rows     decision_alternatives: per ordinal a row [born, text, vec,   *)
(*            tries] whose vector is filled later by a worker, while saves *)
(*            rewrite, delete and insert rows                              *)
(*   batch    the worker's rows and the prefix lengths it still posts      *)
(*            (_fill_pending_alternative_vectors, _embed_many)             *)
(*   single   one text being embedded, by a save (_embed, straight to the  *)
(*            encoder) or by an NREM fold (get_embedding, by the gateway's *)
(*            /v1/embeddings route)                                        *)
(*   window   what the gateway knows of the encoder's window, and the      *)
(*            probe that may be renewing it (probe_encoder)                *)
(* A text is named by its number of characters; a vector is the text it    *)
(* was computed from and how many of its characters were posted.           *)
(***************************************************************************)
EXTENDS Integers, Sequences, SequencesExt, FiniteSets

CONSTANTS
    Ordinals,            \* positions in a decision's alternatives
    Texts,               \* the texts an alternative can have, by length
    EMBED_MAX_CHARS,     \* the clamp before any post
    ReservedClamp,       \* reserved_clamp_chars()
    EMBED_RETRIES,
    OVERFLOW_ATTEMPTS,   \* max_overflow_attempts of get_embedding
    ALT_VECTOR_BATCH_SIZE,
    EMBED_MAX_CONTEXT_TOKENS,
    Advertised,          \* the overflow answers: <<advertised, requested>>
    MaxSaves             \* bound: saves of the decision

ASSUME EncodersAssumption ==
    /\ Texts \subseteq Nat \ {0}
    /\ {EMBED_MAX_CHARS, ReservedClamp, EMBED_RETRIES, OVERFLOW_ATTEMPTS,
        ALT_VECTOR_BATCH_SIZE} \subseteq Nat \ {0}
    /\ EMBED_MAX_CHARS >= 2 /\ ReservedClamp >= 2
    /\ Advertised \subseteq Nat \X Nat /\ IsFiniteSet(Ordinals)

VARIABLES rows, saves, batch, single, window

encoderVars == <<rows, saves, batch, single, window>>

NoRow == [born |-> -1]
NoVector == [of |-> 0, chars |-> 0]
NoBatch == [at |-> "idle"]
NoText == [by |-> "none", at |-> "idle"]
UnknownWindow == [advertised |-> 0, full |-> "unknown"]
NoProbe == [at |-> "idle"]

Shorter(a, b) == IF a < b THEN a ELSE b
Clamped(text) == Shorter(text, EMBED_MAX_CHARS)

EncodersInit ==
    /\ rows = [o \in Ordinals |-> NoRow]
    /\ saves = 0
    /\ batch = NoBatch
    /\ single = NoText
    /\ window = [known |-> UnknownWindow, probe |-> NoProbe]

Exists(o) == rows[o] # NoRow
-----------------------------------------------------------------------------
\* classify_overflow: a 400 or 413 whose text names a window and a request.
Classify(answer) ==
    CASE answer[1] < EMBED_MAX_CONTEXT_TOKENS -> "mismatch"
      [] answer[1] >= EMBED_MAX_CONTEXT_TOKENS /\ answer[2] > answer[1] -> "overrun"
      [] OTHER -> "other"

InProportion(len, answer) == (len * answer[1]) \div answer[2]

\* _embed_many shrinks the longest items and those over the reserved clamp.
Longest(lens) == CHOOSE n \in ToSet(lens) : \A m \in ToSet(lens) : m <= n
Shrinks(lens, n) == n = Longest(lens) \/ n >= ReservedClamp
ShrunkItem(n, answer) ==
    Shorter(ReservedClamp, Shorter(InProportion(n, answer), n - 1))
ShrunkMany(lens, answer) ==
    [i \in DOMAIN lens |-> IF Shrinks(lens, lens[i]) THEN ShrunkItem(lens[i], answer)
                                                     ELSE lens[i]]
TooShort(lens, answer) ==
    \/ ShrunkItem(Longest(lens), answer) < 1
    \/ \E n \in ToSet(lens) : Shrinks(lens, n) /\ InProportion(n, answer) < 1
-----------------------------------------------------------------------------
(* handle_save of a decision: _reconcile_decision_alternatives runs in its  *)
(* transaction. An ordinal that is gone is deleted, a new one inserted, and *)
(* a text that differs takes its row's vector and retries away.             *)
Reconciled(o, wanted) ==
    CASE o \notin DOMAIN wanted -> NoRow
      [] o \in DOMAIN wanted /\ Exists(o) /\ rows[o].text = wanted[o] -> rows[o]
      [] OTHER -> [born  |-> IF Exists(o) THEN rows[o].born ELSE saves,
                   text  |-> wanted[o], vec |-> NoVector, tries |-> 0]

SaveDecision ==
    /\ saves < MaxSaves
    /\ \E kept \in SUBSET Ordinals : \E wanted \in [kept -> Texts] :
          rows' = [o \in Ordinals |-> Reconciled(o, wanted)]
    /\ saves' = saves + 1
    /\ UNCHANGED <<batch, single, window>>
-----------------------------------------------------------------------------
(* The worker. Deferred rows are due or not as their clock says; the oldest *)
(* in (attempts, id) order fill the batch.                                  *)
Pending == {o \in Ordinals : Exists(o) /\ rows[o].vec = NoVector}
Ahead(o, p) ==
    \/ rows[o].tries < rows[p].tries
    \/ rows[o].tries = rows[p].tries
       /\ (rows[o].born < rows[p].born \/ (rows[o].born = rows[p].born /\ o < p))

Foremost(due) == {o \in due : Cardinality({p \in due : Ahead(p, o)}) < ALT_VECTOR_BATCH_SIZE}
InOrder(some) ==
    {s \in [1..Cardinality(some) -> some] : \A i, j \in DOMAIN s : i < j => Ahead(s[i], s[j])}

FetchPending ==
    /\ batch = NoBatch
    /\ \E due \in SUBSET Pending :
          /\ due # {} /\ \A o \in Pending \ due : rows[o].tries > 0
          /\ \E some \in InOrder(Foremost(due)) :
                batch' = [at    |-> "post", tries |-> 1,
                          rows  |-> [i \in DOMAIN some |->
                                       [ordinal |-> some[i], born |-> rows[some[i]].born,
                                        text |-> rows[some[i]].text]],
                          lens  |-> [i \in DOMAIN some |-> Clamped(rows[some[i]].text)]]
    /\ UNCHANGED <<rows, saves, single, window>>

VectorsArrive ==
    /\ batch.at = "post"
    /\ batch' = [batch EXCEPT !.at = "write"]
    /\ UNCHANGED <<rows, saves, single, window>>

\* The encoder refuses the batch as too long.
BatchOverflows ==
    /\ batch.at = "post"
    /\ \E answer \in Advertised :
          /\ Classify(answer) \in {"mismatch", "overrun"}
          /\ batch' =
                IF Classify(answer) = "mismatch" \/ batch.tries = EMBED_RETRIES
                   \/ TooShort(batch.lens, answer)
                THEN [batch EXCEPT !.at = "defer"]
                ELSE [batch EXCEPT !.tries = @ + 1, !.lens = ShrunkMany(@, answer)]
    /\ UNCHANGED <<rows, saves, single, window>>

\* Another refusal, an unreachable encoder, or as many vectors as it likes.
BatchFails ==
    /\ batch.at = "post"
    /\ batch' = IF batch.tries = EMBED_RETRIES THEN [batch EXCEPT !.at = "defer"]
                                               ELSE [batch EXCEPT !.tries = @ + 1]
    /\ UNCHANGED <<rows, saves, single, window>>

\* The row the batch read, if it is still there.
RowOf(b) == Exists(b.ordinal) /\ rows[b.ordinal].born = b.born
PendingById(b) == RowOf(b) /\ rows[b.ordinal].vec = NoVector
StillPending(b) == PendingById(b) /\ rows[b.ordinal].text = b.text

WriteVectors ==
    /\ batch.at = "write"
    /\ rows' = [o \in Ordinals |->
          LET mine == {i \in DOMAIN batch.rows : batch.rows[i].ordinal = o
                                                 /\ StillPending(batch.rows[i])}
          IN IF mine = {} THEN rows[o]
             ELSE LET i == CHOOSE j \in mine : TRUE
                  IN [rows[o] EXCEPT !.vec = [of    |-> batch.rows[i].text,
                                              chars |-> batch.lens[i]],
                                     !.tries = 0]]
    /\ batch' = NoBatch
    /\ UNCHANGED <<saves, single, window>>

\* No connection to write by: the worker logs it and comes round again.
WriteFails ==
    /\ batch.at \in {"write", "defer"}
    /\ batch' = NoBatch
    /\ UNCHANGED <<rows, saves, single, window>>

\* _defer_pending_alternatives goes by id: a row whose text has changed since
\* the batch was read is put off with the others.
Defer ==
    /\ batch.at = "defer"
    /\ rows' = [o \in Ordinals |->
          IF \E i \in DOMAIN batch.rows : batch.rows[i].ordinal = o /\ RowOf(batch.rows[i])
          THEN [rows[o] EXCEPT !.tries = Shorter(@ + 1, 1)]   \* counted up to one
          ELSE rows[o]]
    /\ batch' = NoBatch
    /\ UNCHANGED <<saves, single, window>>
-----------------------------------------------------------------------------
(* One text. A save posts to the encoder and retries; an NREM fold posts by *)
(* the gateway, never retries a fault, and treats every 400 and 413 as an   *)
(* overflow.                                                                *)
Embed ==
    /\ single.by = "none"
    /\ \E by \in {"save", "nrem"}, t \in Texts :
          single' = [by |-> by, text |-> t, len |-> Clamped(t), tries |-> 1,
                     at |-> "post", stale |-> FALSE]
    /\ UNCHANGED <<rows, saves, batch, window>>

EndedAs(result) == [single EXCEPT !.at = result]

ShrunkOne(n, answer) ==
    LET scaled == Shorter(ReservedClamp, InProportion(n, answer))
    IN IF scaled >= n THEN n - 1 ELSE scaled

SaveOverflows ==
    /\ single.by = "save" /\ single.at = "post"
    /\ \E answer \in Advertised :
          /\ Classify(answer) \in {"mismatch", "overrun"}
          /\ single' = IF \/ Classify(answer) = "mismatch"
                          \/ single.tries = EMBED_RETRIES
                          \/ ShrunkOne(single.len, answer) < 1
                       THEN EndedAs("raised")
                       ELSE [single EXCEPT !.tries = @ + 1,
                                           !.len = ShrunkOne(@, answer)]
    /\ UNCHANGED <<rows, saves, batch, window>>

SaveFails ==
    /\ single.by = "save" /\ single.at = "post"
    /\ single' = IF single.tries = EMBED_RETRIES THEN EndedAs("raised")
                                                 ELSE [single EXCEPT !.tries = @ + 1]
    /\ UNCHANGED <<rows, saves, batch, window>>

\* get_embedding's next prefix: at least a tenth shorter every time.
Rejected(n, answer) ==
    LET scaled == IF answer[1] > 0 /\ answer[2] > answer[1]
                  THEN Shorter(n - 1, InProportion(n, answer)) ELSE n \div 2
    IN CASE n > ReservedClamp -> Shorter(ReservedClamp, n - 1)
         [] n <= ReservedClamp /\ scaled * 10 >= n * 9 -> n \div 2
         [] OTHER -> scaled

NremOverflows ==
    /\ single.by = "nrem" /\ single.at = "post"
    /\ \E answer \in Advertised :
          LET shorter == Rejected(single.len, answer)
          IN single' = IF \/ Classify(answer) = "mismatch"
                          \/ shorter < 2
                          \/ shorter >= single.len
                          \/ single.tries = OVERFLOW_ATTEMPTS
                       THEN EndedAs("none")
                       ELSE [single EXCEPT !.tries = @ + 1, !.len = shorter, !.stale = FALSE]
    /\ UNCHANGED <<rows, saves, batch, window>>

\* The gateway's handle_encoder and _forward_upstream: a pooled connection the
\* encoder had closed is tried once more, since the body is in memory.
StaleConnection ==
    /\ single.by = "nrem" /\ single.at = "post" /\ ~single.stale
    /\ single' = [single EXCEPT !.stale = TRUE]
    /\ UNCHANGED <<rows, saves, batch, window>>

\* Unreachable, timed out, faulty, or an answer cut off in mid-stream.
RelayFails ==
    /\ single.by = "nrem" /\ single.at = "post"
    /\ single' = EndedAs("none")
    /\ UNCHANGED <<rows, saves, batch, window>>

VectorArrives ==
    /\ single.at = "post"
    /\ single' = EndedAs("vector")
    /\ UNCHANGED <<rows, saves, batch, window>>

CallEnds ==
    /\ single.by # "none" /\ single.at # "post"
    /\ single' = NoText
    /\ UNCHANGED <<rows, saves, batch, window>>
-----------------------------------------------------------------------------
(* probe_encoder: ask /v1/models, then /props, then post a full payload.    *)
ProbeWindow ==
    /\ window.probe = NoProbe
    /\ window' = [window EXCEPT !.probe = [at |-> "asked", cached |-> window.known]]
    /\ UNCHANGED <<rows, saves, batch, single>>

\* Nothing answered: what was known stands.
EncoderSilent ==
    /\ window.probe.at = "asked"
    /\ window' = [window EXCEPT !.probe = NoProbe]
    /\ UNCHANGED <<rows, saves, batch, single>>

Windows == {answer[1] : answer \in Advertised}

WindowAnswered ==
    /\ window.probe.at = "asked"
    /\ \E adv \in Windows \cup {0} :      \* 0: reachable, but names no window
          IF adv = window.probe.cached.advertised /\ window.probe.cached.full = "yes"
          THEN window' = [window EXCEPT !.probe = NoProbe]
          ELSE window' = [window EXCEPT !.probe =
                             [at |-> "full", cached |-> window.probe.cached, adv |-> adv]]
    /\ UNCHANGED <<rows, saves, batch, single>>

\* "unknown": the key was refused, or (the reranker) an answer that is no verdict
FullPayloadAnswered ==
    /\ window.probe.at = "full"
    /\ \E full \in {"yes", "no", "unknown"} :
          window' = [known |-> [advertised |-> IF window.probe.adv # 0 THEN window.probe.adv
                                               ELSE window.probe.cached.advertised,
                                full |-> full],
                     probe |-> NoProbe]
    /\ UNCHANGED <<rows, saves, batch, single>>

EncodersNext ==
    \/ SaveDecision \/ FetchPending \/ VectorsArrive \/ BatchOverflows
    \/ BatchFails \/ WriteVectors \/ WriteFails \/ Defer
    \/ Embed \/ SaveOverflows \/ SaveFails \/ NremOverflows \/ StaleConnection
    \/ RelayFails \/ VectorArrives \/ CallEnds
    \/ ProbeWindow \/ EncoderSilent \/ WindowAnswered \/ FullPayloadAnswered

EncodersSpec == EncodersInit /\ [][EncodersNext]_encoderVars
-----------------------------------------------------------------------------
\* The vector in a decision_alternatives row is that of the text the row has
\* now, whatever saves happened while the worker was at the embedder.
VectorOfItsText ==
    \A o \in Ordinals :
        Exists(o) /\ rows[o].vec # NoVector => rows[o].vec.of = rows[o].text

\* No shrinking after an overflow ends in an empty text, and a fold is never
\* given the vector of a single character of a longer text.
NothingIsShrunkAway ==
    /\ batch # NoBatch => \A i \in DOMAIN batch.lens : batch.lens[i] >= 1
    /\ single.by # "none" => single.len >= 1
    /\ single.by = "nrem" => single.len >= Shorter(2, single.text)

\* A vector is that of the text it stands for, and of a piece of it long enough.
VectorsStandForTexts == VectorOfItsText /\ NothingIsShrunkAway

-----------------------------------------------------------------------------
(***************************************************************************)
(* The inductive invariant.                                                *)
(***************************************************************************)
Alternatives == [born : Nat, text : Texts, vec : [of : Nat, chars : Nat], tries : Nat]
BatchRows == [ordinal : Ordinals, born : Nat, text : Texts]
Batches ==
    [at : {"post", "write", "defer"}, tries : Nat, rows : Seq(BatchRows), lens : Seq(Nat \ {0})]
Singles ==
    [by : {"save", "nrem"}, text : Texts, len : Nat \ {0}, tries : Nat,
     at : {"post", "raised", "none", "vector"}, stale : BOOLEAN]

EncodersTypeOK ==
    /\ rows \in [Ordinals -> Alternatives \cup {NoRow}] /\ saves \in Nat
    /\ batch = NoBatch \/ (batch \in Batches /\ Len(batch.lens) = Len(batch.rows))
    /\ single = NoText \/ single \in Singles

\* A fold never posts a single character of a longer text.
LongEnough == single.by = "nrem" => single.len >= Shorter(2, single.text)

EncodersInv == EncodersTypeOK /\ VectorOfItsText /\ LongEnough

=============================================================================
