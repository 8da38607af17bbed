------------------------------- MODULE Gateway -------------------------------
(***************************************************************************)
(* internal/controller/gateway: one request from its body to the answer.   *)
(* The steps are the points where the handler waits for somebody else: the *)
(* client's body, the upstream's headers, the upstream's body.  What the   *)
(* mask use case finds is module Masking's subject and what happens inside *)
(* of a stream SseRelay's; here a word is sensitive or not, and a stream is*)
(* only handed over.                                                       *)
(***************************************************************************)
EXTENDS JsonBody

CONSTANTS
    Requests,      \* [api, path, method, delivery, headers, doc]
    Policies,      \* the effective settings: [enabled, mode, types]
    Configs,       \* [limit, upstream, expose, named, audit]
    Answers(_),    \* the documents an upstream of an API answers with
    Paths,         \* GUARDRAILS_PATHS: configured path -> format
    PathBases,     \* paths with an upstream base of their own
    Rules,         \* [id, type, matches]: what each rule detects
    PlaceholderOf, \* original -> placeholder
    EscapedOf,     \* original -> original in a JSON string; differs for quotes
    DottedKeys,
    StreamTexts    \* sets of texts that the recorder of a stream may hold

VARIABLES
    cfg, req, eff,
    phase,         \* "arrived", "forward", "upstream", "respond", "done"
    out,           \* what maskRequest decided: [doc, demask, state, requestID]
    failed,        \* the mask use case or a demasker failed
    sent,          \* the requests the upstream received
    resp,          \* its response, or None
    client,        \* what the client received, or None
    records        \* the texts handed to the audit recorder, a set

vars == <<cfg, req, eff, phase, out, failed, sent, resp, client, records>>

Chat == INSTANCE ChatBody
Messages == INSTANCE MessagesBody
Responses == INSTANCE ResponsesBody

None == [kind |-> "none"]
Words(text) == ToSet(text)

-----------------------------------------------------------------------------
(* PathResolver.                                                            *)

IsSuffixOf(key, path) == Len(key) < Len(path) /\ SubSeq(path, Len(path) - Len(key) + 1, Len(path)) = key

\* Mutant: any suffix will do, here the shortest.
ResolveShortest(path) ==
    LET keys == {k \in DOMAIN Paths : k = path \/ IsSuffixOf(k, path)}
    IN  IF keys = {} THEN "none" ELSE Paths[CHOOSE k \in keys : \A l \in keys : Len(k) <= Len(l)]

\* The configured path itself, else the longest one that is a suffix.
Resolve(path) ==
    LET keys == {k \in DOMAIN Paths : IsSuffixOf(k, path)}
    IN  CASE path \in DOMAIN Paths -> Paths[path]
          [] path \notin DOMAIN Paths /\ keys # {} -> Paths[CHOOSE k \in keys : \A l \in keys : Len(k) >= Len(l)]
          [] OTHER -> "none"

RequestHasBody(method) == method \in {"POST", "PUT", "PATCH"}

UpstreamURL(path) ==
    CASE path \in DOMAIN PathBases -> PathBases[path] \o path
      [] path \notin DOMAIN PathBases /\ cfg.upstream # None -> cfg.upstream.base \o path
      [] OTHER -> <<>>

-----------------------------------------------------------------------------
(* The mask use case, as the gateway meets it.                              *)

Hits(word) == {r \in Rules : r.type \in eff.types /\ word \in r.matches}
Sensitive == {w \in DOMAIN PlaceholderOf : Hits(w) # {}}

MaskText(text) == [n \in DOMAIN text |-> IF text[n] \in Sensitive THEN PlaceholderOf[text[n]] ELSE text[n]]

\* A value belongs to the first rule that matches it.
MaskingState(found) ==
    [replacements |-> {[original |-> w, rule |-> CHOOSE r \in Hits(w) : \A q \in Hits(w) : r.id <= q.id] : w \in found},
     rules |-> {r.id : r \in UNION {Hits(w) : w \in found}},
     types |-> {r.type : r \in UNION {Hits(w) : w \in found}}]

NoState == [replacements |-> {}, rules |-> {}, types |-> {}]
Originals(state) == {r.original : r \in state.replacements}

Restore(text, state) ==
    [n \in DOMAIN text |->
        IF \E w \in Originals(state) : PlaceholderOf[w] = text[n]
          THEN CHOOSE w \in Originals(state) : PlaceholderOf[w] = text[n] ELSE text[n]]

-----------------------------------------------------------------------------
(* Request.                                                                 *)

\* readBody: the answer that ends the request, or None.
ReadBody ==
    CASE req.delivery = "large" /\ cfg.limit -> 413
      [] req.delivery = "broken" -> 400
      [] OTHER -> 200

Guarded == Resolve(req.path) # "none"
Maskable == Guarded /\ RequestHasBody(req.method) /\ eff.enabled /\ eff.types # {} /\ req.doc # Missing

ExtractRequestContent(body) ==
    CASE Resolve(req.path) = "responses" -> Responses!ExtractRequestContent(body)
      [] Resolve(req.path) = "messages" -> Messages!ExtractRequestContent(body)
      [] OTHER -> Chat!ExtractRequestContent(body)

\* Every field whose text changed is set on its own path.
PatchFields(body, fields, masked) ==
    FoldLeft(LAMBDA doc, n :
                IF masked[n] = fields[n].value.text THEN doc ELSE Set(doc, fields[n].path, Str(masked[n])),
             body, [n \in DOMAIN fields |-> n])

\* maskRequest: what is forwarded, and whether the answer must be demasked.
\* An error, a body of another format and a request without findings are
\* forwarded as they are.
Unmasked(doc) == [doc |-> doc, demask |-> FALSE, state |-> NoState, requestID |-> FALSE]

MaskRequest(forwarded, body, fails) ==
    LET extracted == ExtractRequestContent(body)
        fields == extracted.fields
        masked == [n \in DOMAIN fields |-> MaskText(fields[n].value.text)]
        found == (UNION {Words(fields[n].value.text) : n \in DOMAIN fields}) \cap Sensitive
        records1 == IF cfg.audit THEN records \cup {masked[n] : n \in DOMAIN fields} ELSE records
        passed == ~extracted.ok \/ fields = <<>> \/ fails \/ found = {}
    IN  \/ passed /\ out' = Unmasked(forwarded) /\ records' = records
        \/ ~passed /\ eff.mode = "detect" /\ out' = Unmasked(forwarded) /\ records' = records1
        \/ /\ ~passed /\ eff.mode # "detect" /\ records' = records1
           /\ out' = [doc |-> PatchFields(body, fields, masked), demask |-> TRUE,
                      state |-> MaskingState(found), requestID |-> TRUE]

\* Both sides must read the same value of a repeated key; detect mode leaves
\* the client's bytes alone.
CollapsedBody(body) ==
    LET collapsed == CollapseDuplicateKeys(body)
    IN  [scanned |-> collapsed, forwarded |-> IF eff.mode = "detect" THEN body ELSE collapsed]

StreamRequested ==
    Get(IF Maskable THEN CollapsedBody(req.doc).scanned ELSE req.doc, "stream").kind = "true"

ServeHTTP(fails) ==
    /\ phase = "arrived" /\ ReadBody = 200
    /\ phase' = "forward" /\ failed' = (fails /\ Maskable)
    /\ LET body == CollapsedBody(req.doc)
       IN  IF Maskable THEN MaskRequest(body.forwarded, body.scanned, fails)
           ELSE out' = Unmasked(req.doc) /\ records' = records
    /\ UNCHANGED <<cfg, req, eff, sent, resp, client>>

Error(status) == [status |-> status, header |-> [name \in {} |-> <<>>], doc |-> None, full |-> FALSE]

ReadBodyFails ==
    /\ phase = "arrived" /\ ReadBody # 200
    /\ phase' = "done" /\ client' = Error(ReadBody)
    /\ UNCHANGED <<cfg, req, eff, out, failed, sent, resp, records>>

-----------------------------------------------------------------------------
(* Forward.                                                                 *)

HopByHop == {"Connection", "Upgrade"}

\* copyHeaders, then removeHopByHop with the names a Connection header lists.
RemoveHopByHop(names) == names \ (HopByHop \cup (IF "Connection" \in names THEN {"X-Listed"} ELSE {}))

\* Mutant: the body can be read again.
OutRequestReplayable ==
    [url |-> UpstreamURL(req.path), doc |-> out.doc, getBody |-> TRUE,
     headers |-> RemoveHopByHop(req.headers) \ {"Override"},
     compressed |-> "Accept-Encoding" \in req.headers /\ ~out.demask]

\* A masked request asks for an answer that is not compressed.
OutRequest ==
    [url |-> UpstreamURL(req.path), doc |-> out.doc, getBody |-> FALSE,
     headers |-> RemoveHopByHop(req.headers) \ {"Override"},
     compressed |-> "Accept-Encoding" \in req.headers /\ ~out.demask]

Forward ==
    /\ phase = "forward"
    /\ IF UpstreamURL(req.path) = <<>>
         THEN phase' = "done" /\ client' = Error(502) /\ sent' = sent
         ELSE phase' = "upstream" /\ sent' = Append(sent, OutRequest) /\ client' = client
    /\ UNCHANGED <<cfg, req, eff, out, failed, resp, records>>

\* A reused connection breaks after the request was written: net/http sends
\* the request again if it can and the client declared it idempotent.
ConnectionBreaks ==
    /\ phase = "upstream" /\ Len(sent) < 2
    /\ IF Last(sent).getBody /\ "Idempotency-Key" \in Last(sent).headers
         THEN sent' = Append(sent, Last(sent)) /\ UNCHANGED <<phase, client>>
         ELSE phase' = "done" /\ client' = Error(502) /\ sent' = sent
    /\ UNCHANGED <<cfg, req, eff, out, failed, resp, records>>

\* Nobody is left to answer.
ClientGone ==
    /\ phase \in {"upstream", "respond"} /\ phase' = "done"
    /\ UNCHANGED <<cfg, req, eff, out, failed, sent, resp, client, records>>

UpstreamAnswers(status, ctype, doc, compressed, own) ==
    /\ phase = "upstream" /\ phase' = "respond"
    /\ compressed => Last(sent).compressed
    /\ resp' = [status |-> status, ctype |-> ctype, doc |-> doc, compressed |-> compressed,
                header |-> [name \in {"types", "rules", "counts", "length"} |->
                               IF name = "length" THEN <<"of", doc>> ELSE IF own THEN <<"upstream">> ELSE <<>>]]
    /\ UNCHANGED <<cfg, req, eff, out, failed, sent, client, records>>

-----------------------------------------------------------------------------
(* The headers that report the outcome.                                     *)

ReplacementCounts(state) ==
    [id \in state.rules |-> Cardinality({r \in state.replacements : r.rule.id = id})]

\* The headers this configuration sets: a header without a name is left out,
\* the rule headers are opt-in.
OwnedHeaders == (IF cfg.expose THEN {"types", "rules", "counts"} ELSE {"types"}) \cap cfg.named

\* triggeredHeaders: the headers of a masked request.
TriggeredHeaders(state) ==
    LET values == [types |-> <<"ours", state.types>>, rules |-> <<"ours", state.rules>>,
                   counts |-> <<"ours", ReplacementCounts(state)>>]
    IN  [name \in OwnedHeaders |-> values[name]]

\* Mutant: what the upstream sent under those names stays.
AddTriggeredHeaders(header) ==
    [name \in DOMAIN header |->
        IF out.demask /\ name \in OwnedHeaders THEN TriggeredHeaders(out.state)[name] ELSE header[name]]

\* setTriggeredHeaders: what the upstream sent under those names is dropped,
\* also when the request was not masked.
SetTriggeredHeaders(header) ==
    LET own == [name \in DOMAIN header |-> IF name \in OwnedHeaders THEN <<>> ELSE header[name]]
    IN  [name \in DOMAIN header |->
            IF out.demask /\ name \in OwnedHeaders THEN TriggeredHeaders(out.state)[name] ELSE own[name]]

-----------------------------------------------------------------------------
(* Response.                                                                *)

\* Without a masked request the response is relayed as it is.
Relay ==
    /\ phase = "respond" /\ ~out.demask /\ phase' = "done"
    /\ client' = [status |-> resp.status, header |-> SetTriggeredHeaders(resp.header), doc |-> resp.doc, full |-> TRUE]
    /\ UNCHANGED <<cfg, req, eff, out, failed, sent, resp, records>>

\* The content type decides; a client that asked for a stream gets one unless
\* the answer is clearly JSON.
IsSSE == resp.ctype = "text/event-stream" \/ (StreamRequested /\ resp.ctype # "application/json")

Capture == cfg.audit /\ out.requestID

\* demaskSSE: the texts are recorded when the stream was relayed to its end.
DemaskSSE(texts) ==
    /\ phase = "respond" /\ out.demask /\ IsSSE /\ phase' = "done"
    /\ client' = [status |-> resp.status,
                  header |-> SetTriggeredHeaders([resp.header EXCEPT !["length"] = <<>>]),
                  doc |-> None, full |-> FALSE]
    /\ records' = IF Capture THEN records \cup texts ELSE records
    /\ UNCHANGED <<cfg, req, eff, out, failed, sent, resp>>

ExtractOutputFields(body) ==
    CASE Resolve(req.path) = "chat_completions" -> Chat!ExtractOutputFields(body)
      [] Resolve(req.path) = "responses" -> Responses!ExtractOutputFields(body)
      [] Resolve(req.path) = "messages" -> Messages!ExtractResponseFields(body)
      [] OTHER -> <<>>

Structured(f) == Last(f.path) \in {"arguments", "input"}

TextsOf(fields) == {n \in DOMAIN fields : ~Structured(fields[n])}

\* A placeholder is no original, and the model makes up none: what its answers
\* hold of the request are placeholders.
ASSUME GatewayAssumption ==
    LET harmless(text) == Words(text) \cap DOMAIN PlaceholderOf = {}
    IN  /\ \A w \in DOMAIN PlaceholderOf : PlaceholderOf[w] \notin DOMAIN PlaceholderOf
        /\ \A texts \in StreamTexts : \A text \in texts : harmless(text)
        /\ \A r \in Requests : \A doc \in Answers(r.api) :
              \A fields \in {Chat!ExtractOutputFields(doc), Responses!ExtractOutputFields(doc),
                             Messages!ExtractResponseFields(doc)} :
                 \A n \in TextsOf(fields) : harmless(fields[n].value.text)

\* Mutant: the texts the client gets.
CollectRestoredTexts(fields) == {Restore(fields[n].value.text, out.state) : n \in TextsOf(fields)}

\* The masked texts of the model, for the audit record.
CollectMaskedResponseTexts(fields) == {fields[n].value.text : n \in TextsOf(fields)}

\* json.Valid for the text of tool arguments: an object whose strings hold no
\* bare quote.
IsJson(text) ==
    /\ Len(text) >= 2 /\ Head(text) = "{" /\ Last(text) = "}"
    /\ \A w \in DOMAIN EscapedOf : EscapedOf[w] # w => w \notin Words(text)

\* Restored inside of a JSON string.
RestoreEscaped(text) ==
    LET plain == Restore(text, out.state)
    IN  [n \in DOMAIN text |->
           IF plain[n] # text[n] THEN EscapedOf[plain[n]] ELSE text[n]]

\* Mutant: plain substitution.
DemaskArgumentsNaive(text) == Restore(text, out.state)

\* DemaskJSONArguments: plain substitution if that leaves valid JSON, else
\* leaf by leaf, else the masked text stays.
DemaskJSONArguments(text) ==
    CASE IsJson(Restore(text, out.state)) -> Restore(text, out.state)
      [] ~IsJson(Restore(text, out.state)) /\ IsJson(text) -> RestoreEscaped(text)
      [] OTHER -> text

DemaskJSONStringLeaves(v) ==
    LET demasked[x \in Nodes(v)] ==
            CASE x.kind = "str" -> Str(Restore(x.text, out.state))
              [] x.kind = "obj" ->
                    Obj([n \in DOMAIN x.members |-> [x.members[n] EXCEPT !.value = demasked[x.members[n].value]]])
              [] x.kind = "arr" -> Arr([n \in DOMAIN x.items |-> demasked[x.items[n]]])
              [] OTHER -> x
    IN  demasked[v]

DemaskField(f) ==
    CASE Last(f.path) = "input" -> DemaskJSONStringLeaves(f.value)
      [] Last(f.path) = "arguments" -> Str(DemaskJSONArguments(f.value.text))
      [] OTHER -> Str(Restore(f.value.text, out.state))

\* A field that cannot be demasked keeps its masked value.
DemaskAndPatchFields(body, fields, failing) ==
    FoldLeft(LAMBDA doc, n :
                IF n \in failing \/ DemaskField(fields[n]) = fields[n].value THEN doc
                ELSE Set(doc, fields[n].path, DemaskField(fields[n])),
             body, [n \in DOMAIN fields |-> n])

\* demaskFull.  A compressed body has no fields.
DemaskFull(failing) ==
    LET fields == IF resp.compressed THEN <<>> ELSE ExtractOutputFields(resp.doc)
        patched == DemaskAndPatchFields(resp.doc, fields, failing)
    IN  /\ phase = "respond" /\ out.demask /\ ~IsSSE /\ failing \subseteq DOMAIN fields /\ phase' = "done"
        /\ failed' = (failed \/ failing # {})
        /\ client' = [status |-> resp.status, doc |-> patched, full |-> TRUE,
                      header |-> [SetTriggeredHeaders(resp.header) EXCEPT !["length"] = <<"of", patched>>]]
        /\ records' = IF Capture THEN records \cup CollectMaskedResponseTexts(fields) ELSE records
        /\ UNCHANGED <<cfg, req, eff, out, sent, resp>>

\* The upstream's body breaks off; nothing was written yet.
UnreadableResponse ==
    /\ phase = "respond" /\ out.demask /\ ~IsSSE /\ phase' = "done"
    /\ client' = [Error(502) EXCEPT !.header = SetTriggeredHeaders([resp.header EXCEPT !["length"] = <<>>])]
    /\ UNCHANGED <<cfg, req, eff, out, failed, sent, resp, records>>

-----------------------------------------------------------------------------

\* New and the arrival of a request: the settings are read once.
Init ==
    /\ cfg \in Configs /\ req \in Requests /\ eff \in Policies
    /\ phase = "arrived" /\ out = Unmasked(Missing) /\ failed = FALSE
    /\ sent = <<>> /\ resp = None /\ client = None /\ records = {}

Done == phase = "done" /\ UNCHANGED vars

Next ==
    \/ ReadBodyFails \/ \E fails \in BOOLEAN : ServeHTTP(fails)
    \/ Forward \/ ConnectionBreaks \/ ClientGone
    \/ \E doc \in Answers(req.api), compressed, own \in BOOLEAN :
          \/ \E ctype \in {"application/json", "text/event-stream", "text/plain"} :
                UpstreamAnswers(200, ctype, doc, compressed, own)
          \/ UpstreamAnswers(500, "application/json", doc, compressed, own)
    \/ Relay \/ UnreadableResponse
    \/ \E texts \in StreamTexts : DemaskSSE(texts)
    \/ \E failing \in {{}, {1}, {1, 2}} : DemaskFull(failing)
    \/ Done

Spec == Init /\ [][Next]_vars

-----------------------------------------------------------------------------
(* How the other side reads a body: an object is a function, and of several *)
(* members with one key the last one counts.                                *)

Parse(v) ==
    LET parsed[x \in Nodes(v)] ==
            CASE x.kind = "obj" ->
                    [kind |-> "map",
                     map |-> [k \in {x.members[n].key : n \in DOMAIN x.members} |->
                                parsed[x.members[SelectLastInSeq(x.members, LAMBDA m : m.key = k)].value]]]
              [] x.kind = "arr" -> Arr([n \in DOMAIN x.items |-> parsed[x.items[n]]])
              [] OTHER -> x
    IN  parsed[v]

\* The strings of a parsed document: where they are ("#" is any index), and
\* the types of the objects around them.
Leaves(v) ==
    LET within(key, types, ls) == {[l EXCEPT !.path = <<key>> \o @, !.types = types \cup @] : l \in ls}
        own(x) == IF "type" \in DOMAIN x.map /\ x.map["type"].kind = "str" THEN Words(x.map["type"].text) ELSE {}
        leaves[x \in Nodes(v)] ==
            CASE x.kind = "str" -> {[path |-> <<>>, text |-> x.text, types |-> {}]}
              [] x.kind = "arr" -> UNION {within("#", {}, leaves[x.items[n]]) : n \in DOMAIN x.items}
              [] x.kind = "map" -> UNION {within(k, own(x), leaves[x.map[k]]) : k \in DOMAIN x.map}
              [] OTHER -> {}
    IN  leaves[v]

PromptRoots == [chat_completions |-> {"messages"}, messages |-> {"system", "messages"},
                responses |-> {"instructions", "input"}]
TextKeys == {"content", "text", "arguments", "output", "system", "instructions", "input"}
OpaqueTypes == {"image_url", "input_image", "reasoning"}

\* What a model of the API is given to read.
ModelTexts(api, doc) ==
    {l \in Leaves(doc) :
        /\ l.path # <<>> /\ l.path[1] \in PromptRoots[api] /\ l.types \cap OpaqueTypes = {}
        /\ \/ Last(l.path) \in TextKeys
           \/ "tool_use" \in l.types /\ "input" \in ToSet(l.path)}

\* The requests that the policy protects.
Protected ==
    /\ req.guarded /\ req.method = "POST" /\ eff.enabled /\ eff.types # {}
    /\ eff.mode = "enforce" /\ ~failed

Unmask(v) ==
    LET unmasked[x \in Nodes(v)] ==
            CASE x.kind = "str" -> Str(Restore(x.text, out.state))
              [] x.kind = "obj" ->
                    [x EXCEPT !.members = [n \in DOMAIN @ |-> [@[n] EXCEPT !.value = unmasked[@]]]]
              [] x.kind = "arr" -> [x EXCEPT !.items = [n \in DOMAIN @ |-> unmasked[@[n]]]]
              [] OTHER -> x
    IN  unmasked[v]

\* In enforce mode no text that the model reads contains a sensitive value,
\* whatever the shape of the body and whichever of several values of a key the
\* upstream takes.
ModelSeesNoSecret ==
    \A n \in DOMAIN sent :
       (Protected /\ Valid(sent[n].doc, NonFiniteAsNumbers)) =>
          \A l \in ModelTexts(req.api, Parse(sent[n].doc)) : Words(l.text) \cap Sensitive = {}

\* The upstream reads the client's request with placeholders for originals and
\* no other change; outside of enforce mode it gets the client's bytes.
OnlyMaskedTextChanges ==
    \A n \in DOMAIN sent :
       /\ Parse(Unmask(sent[n].doc)) = Parse(req.doc)
       /\ (~req.guarded \/ ~eff.enabled \/ eff.mode = "detect") => sent[n].doc = req.doc

\* One request of a client is at most one call of the model.
UpstreamCalledOnce == Len(sent) <= 1

EncryptedKeys == {"signature", "data", "encrypted_content"}

\* The client reads the model's answer with its originals in the place of the
\* placeholders, in valid tool arguments, and no other change.
ClientGetsOriginals ==
    (client # None /\ client.full) =>
       /\ ~resp.compressed => client.header["length"] = <<"of", client.doc>>
       /\ ~out.demask => client.doc = resp.doc
       /\ (out.demask /\ ~failed) =>
             LET got == Leaves(Parse(client.doc))
                 answered == Leaves(Parse(resp.doc))
                 issued == {PlaceholderOf[w] : w \in Originals(out.state)}
             IN  \A a \in answered : \E g \in got :
                    /\ g.path = a.path /\ g.types = a.types
                    /\ IF Last(a.path) \in EncryptedKeys THEN g.text = a.text
                       ELSE IF Last(a.path) = "arguments" THEN IsJson(g.text) /\ Words(g.text) \cap issued = {}
                       ELSE g.text = Restore(a.text, out.state)

\* The outcome headers are this service's verdict on this request, never a
\* value that the upstream sent under the same name.
VerdictIsOurs ==
    (client # None /\ client.status # 413 /\ client.status # 400 /\ resp # None) =>
       /\ "types" \in cfg.named =>
             client.header["types"] =
                IF out.demask THEN <<"ours", {r.type : r \in UNION {Hits(w) : w \in Originals(out.state)}}>> ELSE <<>>
       /\ (cfg.expose /\ {"rules", "counts"} \subseteq cfg.named /\ out.demask) =>
             DOMAIN client.header["counts"][2] = client.header["rules"][2]

\* The audit trail holds no sensitive value, of the request or of the answer.
AuditHoldsNoSecrets == \A text \in records : Words(text) \cap Sensitive = {}
=============================================================================
