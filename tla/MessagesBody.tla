---------------------------- MODULE MessagesBody ----------------------------
(***************************************************************************)
(* pkg/llmutils/messages: the fields of Anthropic /v1/messages bodies.     *)
(***************************************************************************)
EXTENDS JsonBody

CONSTANT DottedKeys    \* keys with a dot in them, and the components a dot separates

CollectTypedTextParts(v, base) == TextParts(v, base, {"text"})

\* Mutant: the dots of a key separate path components.
PathKeyAsWritten(key) == IF key \in DOMAIN DottedKeys THEN DottedKeys[key] ELSE <<key>>

\* The components that a key adds to a path: escaped, always one.
EscapePathKey(key) == <<key>>

\* Every string inside of a tool's input is a field of its own.
CollectJSONStringLeaves(v, base) ==
    LET under(path, fields) == [n \in DOMAIN fields |-> [fields[n] EXCEPT !.path = path \o @]]
        leaves[x \in Nodes(v)] ==
            CASE x.kind = "obj" ->
                    FlattenSeq([n \in DOMAIN x.members |->
                        under(EscapePathKey(x.members[n].key), leaves[x.members[n].value])])
              [] x.kind = "arr" ->
                    FlattenSeq([n \in DOMAIN x.items |-> under(<<ToString(n - 1)>>, leaves[x.items[n]])])
              [] OTHER -> TextField(x, <<>>)
    IN  under(base, leaves[v])

TextOrParts(v, base) == IF v.kind = "arr" THEN CollectTypedTextParts(v, base) ELSE TextField(v, base)

CollectMessagesContentBlocks(content, base) ==
    Each(content.items, LAMBDA part, path :
            CASE TypeIs(part, {"text"}) -> TextField(Get(part, "text"), Append(path, "text"))
              [] TypeIs(part, {"tool_use"}) -> CollectJSONStringLeaves(Get(part, "input"), Append(path, "input"))
              [] TypeIs(part, {"tool_result"}) -> TextOrParts(Get(part, "content"), Append(path, "content"))
              [] OTHER -> <<>>,
         base)

\* Never an error: a body of another format has no fields.
ExtractRequestContent(body) ==
    LET messages == ForEach(Get(body, "messages"), <<"messages">>)
        content(n) == Get(messages[n].value, "content")
        path(n) == Append(messages[n].path, "content")
    IN  [ok |-> TRUE,
         fields |-> TextOrParts(Get(body, "system"), <<"system">>)
                    \o FlattenSeq([n \in DOMAIN messages |->
                          IF content(n).kind = "arr" THEN CollectMessagesContentBlocks(content(n), path(n))
                          ELSE TextField(content(n), path(n))])]

\* The input of a tool call is a raw object.
ExtractResponseFields(body) ==
    Each(Array(Get(body, "content")), LAMBDA block, path :
            LET input == Get(block, "input")
            IN  CASE TypeIs(block, {"text"}) -> TextField(Get(block, "text"), Append(path, "text"))
                  [] TypeIs(block, {"thinking"}) -> TextField(Get(block, "thinking"), Append(path, "thinking"))
                  [] TypeIs(block, {"tool_use"}) /\ input.kind = "obj" /\ input.members # <<>> ->
                        <<Field(Append(path, "input"), input)>>
                  [] OTHER -> <<>>,
         <<"content">>)
=============================================================================
