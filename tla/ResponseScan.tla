---------------------------- MODULE ResponseScan ----------------------------
(* internal/domain/proxy: the bodies that go through the WAF. A request body
   that is inspected (utils.go, readRequestBody) and a response body that is
   scanned (forward.go, scanResponseBody) are read into a bytes.Buffer of
   bodyBufPool, copied, and the buffer is given back; the goroutines of all
   requests share the pool. A response is then searched for leaks and data loss
   prevention rules, which may replace status and body, and gets its body back. *)
EXTENDS FiniteSets, Integers

CONSTANTS
  Streams,     \* goroutines, each passing one body after the other
  Buffers,     \* buffers; sync.Pool makes one when it has none
  Kinds,       \* the kinds of bodies
  Nobody       \* no buffer; a buffer nothing was read into

\* detect: recorded only; mask: as detect, nothing in the code masks; block
DLPActions == {"detect", "mask", "block"}

\* A body: how long (more than a megabyte, or broken off), whether its Content-Type
\* is one that is scanned, and what the rules it matches say.
ASSUME ResponseScanAssumption ==
  /\ Cardinality(Buffers) >= Cardinality(Streams) /\ Nobody \notin Buffers
  /\ Kinds \subseteq [size : {"short", "long", "broken"}, text : BOOLEAN,
                      matches : SUBSET DLPActions]

NoBody(g) == [of |-> g, part |-> "none"]
Page(g)   == [of |-> g, part |-> "page"]     \* "Blocked by DLP policy"

VARIABLES
  scanning,    \* IsDetectorEnabled("sensitive_data")
  observed,    \* IsObservationMode("sensitive_data")
  pool,        \* bodyBufPool: the buffers in it
  holds,       \* what each buffer holds
  stream       \* each goroutine: how far, its body, buffer, copy, status and result

scanVars == <<scanning, observed, pool, holds, stream>>

Waiting(g) == [pc |-> "waiting", body |-> [size |-> "short", text |-> TRUE, matches |-> {}],
               buf |-> Nobody, copy |-> NoBody(g), out |-> NoBody(g), status |-> 200]

ScanInit ==
  /\ scanning = TRUE
  /\ observed = FALSE
  /\ pool = {}
  /\ holds = [b \in Buffers |-> NoBody(Nobody)]
  /\ stream = [g \in Streams |-> Waiting(g)]

InUse == {stream[g].buf : g \in Streams} \ {Nobody}
Part(size) == IF size = "long" THEN "head" ELSE "whole"

-----------------------------------------------------------------------------
\* scanResponseBody: not enabled, or not text: the body is passed as it comes.
Receive(g) ==
  /\ stream[g].pc = "waiting"
  /\ \E body \in Kinds :
       stream' = [stream EXCEPT ![g] =
         IF scanning /\ body.text
         THEN [Waiting(g) EXCEPT !.pc = "read", !.body = body]
         ELSE [Waiting(g) EXCEPT !.pc = "sent", !.body = body,
                                 !.out = [of |-> g, part |-> "whole"]]]
  /\ UNCHANGED <<scanning, observed, pool, holds>>

\* bodyBufPool.Get, Reset and CopyN: at most a megabyte and one byte. A body that
\* cannot be read to its end is replaced by an empty one.
ReadAndPut(g) ==   \* the buffer given back before it is copied
  /\ stream[g].pc = "read"
  /\ \E b \in IF pool # {} THEN pool ELSE Buffers \ InUse :
       /\ holds' = [holds EXCEPT ![b] = [of |-> g, part |-> Part(stream[g].body.size)]]
       /\ pool' = pool \cup {b}
       /\ stream' = [stream EXCEPT ![g].pc = "copy", ![g].buf = b]
  /\ UNCHANGED <<scanning, observed>>

Read(g) ==
  /\ stream[g].pc = "read"
  /\ \E b \in IF pool # {} THEN pool ELSE Buffers \ InUse :
       /\ holds' = [holds EXCEPT ![b] = [of |-> g, part |-> Part(stream[g].body.size)]]
       /\ IF stream[g].body.size = "broken"
          THEN /\ pool' = pool \cup {b}
               /\ stream' = [stream EXCEPT ![g].pc = "sent"]
          ELSE /\ pool' = pool \ {b}
               /\ stream' = [stream EXCEPT ![g].pc = "copy", ![g].buf = b]
  /\ UNCHANGED <<scanning, observed>>

\* The copy is made and the buffer put back. (The read step of the next body may
\* come between the two, but it cannot be given this buffer.)
Copy(g) ==
  /\ stream[g].pc = "copy"
  /\ stream' = [stream EXCEPT ![g].pc = "detect", ![g].copy = holds[stream[g].buf],
                              ![g].buf = Nobody]
  /\ pool' = pool \cup {stream[g].buf}
  /\ UNCHANGED <<scanning, observed, holds>>

\* detectDLPInResponse: what matched is recorded; a rule that says block sets the
\* status and the body.
DetectLeaks(g) ==
  /\ stream[g].pc = "detect"
  /\ stream' = [stream EXCEPT
       ![g].pc = "restore",
       ![g].status = IF "block" \in stream[g].body.matches /\ ~observed THEN 403 ELSE @,
       ![g].out = IF "block" \in stream[g].body.matches /\ ~observed THEN Page(g) ELSE @]
  /\ UNCHANGED <<scanning, observed, pool, holds>>

\* Back in scanResponseBody: the body is the copy again, whatever was detected.
Restore(g) ==
  /\ stream[g].pc = "restore"
  /\ stream' = [stream EXCEPT ![g].pc = "sent", ![g].out = stream[g].copy]
  /\ UNCHANGED <<scanning, observed, pool, holds>>

Sent(g) ==
  /\ stream[g].pc = "sent"
  /\ stream' = [stream EXCEPT ![g] = Waiting(g)]
  /\ UNCHANGED <<scanning, observed, pool, holds>>

\* sync.Pool may forget any buffer at a garbage collection.
Collect ==
  /\ \E b \in pool : pool' = pool \ {b}
  /\ UNCHANGED <<scanning, observed, holds, stream>>

EnableDetector ==
  /\ scanning' = ~scanning
  /\ UNCHANGED <<observed, pool, holds, stream>>

SetObservation ==
  /\ observed' = ~observed
  /\ UNCHANGED <<scanning, pool, holds, stream>>

ScanNext ==
  \/ \E g \in Streams :
       Receive(g) \/ Read(g) \/ Copy(g) \/ DetectLeaks(g) \/ Restore(g) \/ Sent(g)
  \/ Collect \/ EnableDetector \/ SetObservation

ScanSpec == ScanInit /\ [][ScanNext]_scanVars

-----------------------------------------------------------------------------
(* Whoever shares a buffer with it, a body that is passed on is the body that
   was received: never another client's, never a mixture.                      *)
BodiesAreNotMixed == \A g \in Streams : stream[g].out.of = g

(* "Blocked by DLP policy": what a rule that blocks was found in is not sent.  *)
BlockedIsWithheld ==
  \A g \in Streams :
    stream[g].pc = "sent" /\ stream[g].status = 403 => stream[g].out = Page(g)
=============================================================================
