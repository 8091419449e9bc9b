--------------------------- MODULE AccountConsumer --------------------------
(***************************************************************************)
(* web-api-consumer: AccountApi hands each call under /openFeign on to the *)
(* provider through the Feign client and Hystrix, which answers with the   *)
(* error of AccountServiceFallbackFactory when the provider does not       *)
(* answer in time or cannot be reached.  told = "answer" is the provider's *)
(* own answer, "error" that of the fallback.  (The list under              *)
(* /restTemplate has no fallback and no timeout; it changes nothing.)      *)
(***************************************************************************)
EXTENDS AccountProvider

CONSTANT MaxFeignCalls   \* bound: calls through Feign, among the MaxCalls
ASSUME FeignAssumption == MaxFeignCalls \in Nat

\* A call arrives and is handed on.  Not handing it on, because the circuit is
\* open, is a call the provider never serves.
Call(op, id, account, page) ==
    /\ Len(requests) < MaxCalls
    /\ Cardinality({k \in DOMAIN requests : requests[k].by = "consumer"}) < MaxFeignCalls
    /\ Send(Request("consumer", op, id, account, page))
    /\ UNCHANGED <<rows, writes>>

openFeignList == Call("list", 0, Gone, <<1, Max(PageSizes)>>)
add(account) == Call("add", 0, account, <<0, 0>>)
update(id, account) == Call("update", id, account, <<0, 0>>)
delete(id) == Call("delete", id, Gone, <<0, 0>>)

CallWaits(k) == requests[k].by # "page" /\ requests[k].told = "waiting"

\* The provider's answer is handed on as it is, an error of its own included.
HandOn(k) ==
    /\ CallWaits(k) /\ requests[k].phase = "answered"
    /\ requests' = Told(k)
    /\ UNCHANGED <<rows, writes>>

\* A timeout or a failure of the connection.  What the provider has done or
\* will do with the request is not known.
Fallback(k) ==
    /\ CallWaits(k)
    /\ requests' = GivenUp(k)
    /\ UNCHANGED <<rows, writes>>

ConsumerStep ==
    \/ openFeignList
    \/ \E a \in Account : add(a)
    \/ \E id \in DOMAIN rows : delete(id) \/ \E a \in Account : update(id, a)
    \/ \E k \in DOMAIN requests : HandOn(k) \/ Fallback(k)
=============================================================================
