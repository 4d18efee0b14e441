---------------------------- MODULE StaticBatch ----------------------------
(***************************************************************************)
(* The engine driven one batch at a time, as scripts/test_batched_quality  *)
(* and scripts/bench_throughput drive it: reset, prefill every request,    *)
(* init_batched, decode_all until done, finish every request, and again    *)
(* with the same request ids.  Membership never changes while decoding.    *)
(***************************************************************************)
EXTENDS BatchEngine

VARIABLES
    phase,      \* "loading" until init_batched, then "running"
    emitted,    \* history: tokens returned for the request
    lastToken   \* history: the last of them

staticVars == <<engineVars, phase, emitted, lastToken>>

\* The histories after reply[r] is returned for each r of its domain.
Returned(reply) ==
    /\ emitted' = [r \in Requests |->
                    IF r \in DOMAIN reply THEN emitted[r] + 1 ELSE emitted[r]]
    /\ lastToken' = [r \in Requests |->
                    IF r \in DOMAIN reply THEN reply[r] ELSE lastToken[r]]

StaticInit ==
    /\ Init
    /\ phase = "loading"
    /\ emitted = [r \in Requests |-> 0]
    /\ lastToken = [r \in Requests |-> Token(r, 0)]

StartOver ==
    /\ Reset
    /\ phase' = "loading"
    /\ emitted' = [r \in Requests |-> 0]
    /\ lastToken' = [r \in Requests |-> Token(r, 0)]

Load(r) ==
    /\ phase = "loading"
    /\ session[r] = NoSession
    /\ PrefillReq(r)
    /\ Returned([q \in {r} |-> PrefillReply(q)])
    /\ UNCHANGED phase

\* The return code of init_batched is not looked at.
Begin ==
    /\ phase = "loading"
    /\ Live # {}
    /\ IF Batchable THEN InitBatched ELSE UNCHANGED engineVars
    /\ phase' = "running"
    /\ UNCHANGED <<emitted, lastToken>>

Step ==
    /\ phase = "running"
    /\ \/ DecodeBatch /\ Returned(BatchReply)
       \/ DecodeSemiBatched(Cardinality(Requests) + 1, Live) /\ Returned(SemiReply(Live))
    /\ UNCHANGED phase

\* finish_req, whose session has already moved into the batch when there is one.
Finish(r) ==
    /\ phase = "running"
    /\ FinishReq(r)
    /\ UNCHANGED <<phase, emitted, lastToken>>

StaticNext ==
    \/ StartOver
    \/ \E r \in Requests : Load(r)
    \/ Begin
    \/ Step
    \/ \E r \in Requests : Finish(r)

StaticSpec == StaticInit /\ [][StaticNext]_staticVars

-----------------------------------------------------------------------------
(* Properties                                                              *)

\* Every request receives exactly its own tokens 1, 2, 3, ...: whatever mix of
\* synchronous and pipelined steps produced it, the token returned n-th is the
\* n-th the model generates for that request.
InOrder == \A r \in Requests : lastToken[r] = Token(r, emitted[r])

\* One batch at a time implements TokenStream: init_batched takes in every
\* prefilled request and every decode_all serves all of them, in order.
Stream == INSTANCE TokenStream WITH
    batch <- IF phase = "running" THEN Batched ELSE {},
    count <- emitted,
    last <- lastToken

ImplementsTokenStream == Stream!Spec

=============================================================================
