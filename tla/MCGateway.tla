----------------------------- MODULE MCGateway -----------------------------
(***************************************************************************)
(* Small instances of Gateway: an EVM chain with two endpoints, one that   *)
(* has none, and a chain of another kind.                                  *)
(***************************************************************************)
EXTENDS Gateway, TLC

CONSTANTS c1, c2

MCUpstreams == [k \in Keys |-> IF k = "1" THEN <<"e1", "e2">> ELSE <<>>]

MCLists == {<<>>, <<"unknown", "1", "solana">>}

Item(id, kind) == [id |-> id, kind |-> kind]

Answer(id, kind, error) == [id |-> id, kind |-> kind, error |-> error]

Message(phrases) == RpcError(NoCode, phrases)

NoError == Message({})

Value(id) == Answer(id, "value", NoError)
Null(id)  == Answer(id, "null", NoError)
Other(id) == Answer(id, "other", NoError)
Error(id, phrases) == Answer(id, "error", Message(phrases))

Single(kind) == [batch |-> FALSE, items |-> <<Item(1, kind)>>]
Pair(kind)   == [batch |-> TRUE, items |-> <<Item(1, "getBlock"), Item(2, kind)>>]

Body(batch, items) == [json |-> TRUE, batch |-> batch, items |-> items]

\* Batches with the telling answer first or last, or two of them; one single error
\* is final and transient: an execution error in the words of a server error.
MCBodies ==
    {NoBody}
    \cup {Body(FALSE, <<a>>) :
            a \in {Value(1), Error(1, {"missing"}), Error(1, {"final", "transient"})}}
    \cup {Body(TRUE, items) :
            items \in {<<Value(1), Value(2)>>, <<Value(1), Other(2)>>,
                       <<Null(1), Value(2)>>, <<Value(2), Null(1)>>,
                       <<Error(2, {"rateLimit"}), Error(1, {"missing"})>>}}

Visit(credentials, path, body, request, list) ==
    [credentials |-> credentials, path |-> path, body |-> body,
     request |-> request, list |-> list]

Token == <<"none", "right", "other">>

\* One client forwards, the other may fan out.
Forwards == {Visit(Token, "1", "json", request, <<>>) :
                request \in {Pair("read"), Single("submit")}}

FanOuts == {Visit(Token, FanOutPath, "json", Single("read"), list) : list \in MCLists}

Others ==
    {Visit(credentials, path, body, Single("read"), <<>>) :
        credentials \in {Token, <<"other", "right", "none">>},
        path \in {"", "unknown", "solana", FanOutPath},
        body \in {"broken", "empty", "noJson", "noAddress", "json"}}

MCVisits == c1 :> Forwards @@ c2 :> FanOuts \cup Others

=============================================================================
