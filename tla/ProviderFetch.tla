---------------------------- MODULE ProviderFetch ---------------------------
(***************************************************************************)
(* One call of the sandbox transports that read a provider's answer under  *)
(* a timer and a byte limit: the Telebirr token and order query, and the   *)
(* M-Pesa token.  The timer, the answer's headers and its chunks come in   *)
(* any order; the timer stays on until the call has settled.               *)
(***************************************************************************)
EXTENDS Naturals

CONSTANTS
  MaxBytes,     \* 64 KiB in the code
  ChunkSizes    \* sizes of the chunks a provider sends, at least 1

VARIABLES
  stage,    \* "idle", "connecting", "reading" or "over"
  timer,    \* "off", "running" or "fired"
  aborted,  \* the controller's signal
  body,     \* "none", "open", "ended" or "discarded"
  total,    \* bytes counted
  held,     \* bytes of the chunks that are kept
  outcome   \* "none", "value", or the error the caller gets

vars == <<stage, timer, aborted, body, total, held, outcome>>

Errors == {"NETWORK_DISABLED", "REJECTED", "RESPONSE_TOO_LARGE", "RESPONSE_INVALID", "NETWORK_ERROR", "TIMEOUT"}

Init ==
  /\ stage = "idle" /\ timer = "off" /\ aborted = FALSE
  /\ body = "none" /\ total = 0 /\ held = 0 /\ outcome = "none"

-----------------------------------------------------------------------------
\* finally: clearTimeout.
Settle(result) ==
  /\ stage' = "over" /\ timer' = "off" /\ outcome' = result

Begin ==
  /\ stage = "idle"
  /\ \/ stage' = "connecting" /\ timer' = "running" /\ UNCHANGED outcome
     \/ Settle("NETWORK_DISABLED")
  /\ UNCHANGED <<aborted, body, total, held>>

Fire ==
  /\ timer = "running" /\ stage # "over"
  /\ timer' = "fired" /\ aborted' = TRUE
  /\ UNCHANGED <<stage, body, total, held, outcome>>

\* fetch rejects: the signal, or the network.  The Telebirr clients call both a
\* network error.
FetchRejects ==
  /\ stage = "connecting"
  /\ \E error \in {"NETWORK_ERROR"} \cup {e \in {"TIMEOUT"} : aborted} : Settle(error)
  /\ UNCHANGED <<aborted, body, total, held>>

\* Mutant: a rejected answer's body is left as it is.
RefuseMut(error) == Settle(error) /\ UNCHANGED <<aborted, total, held>> /\ body' = "open"

\* An answer that is not read: the controller is aborted and what there is of a
\* body goes with it.
Refuse(error) ==
  /\ Settle(error) /\ aborted' = TRUE /\ body' = "discarded"
  /\ UNCHANGED <<total, held>>

\* The headers: a redirect, another status than 2xx, a declared length beyond the
\* limit or no body at all ends the call; else the body is read.
Headers ==
  /\ stage = "connecting" /\ ~aborted
  /\ \/ \E error \in {"REJECTED", "RESPONSE_TOO_LARGE", "RESPONSE_INVALID"} : Refuse(error)
     \/ /\ stage' = "reading" /\ body' = "open"
        /\ UNCHANGED <<timer, aborted, total, held, outcome>>

\* reader.read, raced with the signal: a chunk.
Chunk(size) ==
  /\ stage = "reading" /\ ~aborted
  /\ total' = total + size
  /\ IF total' > MaxBytes
     THEN /\ Settle("RESPONSE_TOO_LARGE") /\ aborted' = TRUE /\ body' = "discarded"
          /\ UNCHANGED held
     ELSE /\ held' = held + size
          /\ UNCHANGED <<stage, timer, aborted, body, outcome>>

\* The end of the body: it is parsed, and checked against the answer's schema.
End ==
  /\ stage = "reading" /\ ~aborted
  /\ \E result \in {"value", "RESPONSE_INVALID", "NETWORK_ERROR"} : Settle(result)
  /\ body' = "ended"
  /\ UNCHANGED <<aborted, total, held>>

\* The read rejects, or the signal came first: nothing that settles later counts.
ReadFails ==
  /\ stage = "reading"
  /\ \E error \in {"NETWORK_ERROR"} \cup {e \in {"TIMEOUT"} : aborted} : Settle(error)
  /\ aborted' = TRUE /\ body' = "discarded"
  /\ UNCHANGED <<total, held>>

Next ==
  \/ Begin \/ Fire \/ FetchRejects \/ Headers
  \/ \E size \in ChunkSizes : Chunk(size)
  \/ End \/ ReadFails

Spec == Init /\ [][Next]_vars

-----------------------------------------------------------------------------
TypeOK ==
  /\ stage \in {"idle", "connecting", "reading", "over"}
  /\ timer \in {"off", "running", "fired"} /\ aborted \in BOOLEAN
  /\ body \in {"none", "open", "ended", "discarded"}
  /\ total \in Nat /\ held \in Nat /\ outcome \in {"none", "value"} \cup Errors

\* A call is bounded in time and in memory, and leaves nothing open: while it
\* waits for the provider, of which every wait can be the last, its timer is on or
\* has aborted it; it never holds more than the limit; when it is over the timer
\* is off and no body is left unread without the connection having been aborted;
\* and a value is of a body read to its end.
CallIsBounded ==
  /\ stage \in {"connecting", "reading"} => timer = "running" \/ aborted
  /\ held <= MaxBytes
  /\ stage = "over" => timer = "off" /\ (body = "discarded" => aborted) /\ body # "open"
  /\ outcome = "value" => body = "ended" /\ held = total
=============================================================================
