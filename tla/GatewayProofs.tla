---------------------------- MODULE GatewayProofs ----------------------------
(***************************************************************************)
(* What the gateway does with one request, for any documents, rules,       *)
(* policies, paths and answers: the model is called once, the outcome      *)
(* headers are the service's own, the audit trail holds no original.       *)
(***************************************************************************)
EXTENDS Gateway, TLAPS

HeaderNames == {"types", "rules", "counts", "length"}

-----------------------------------------------------------------------------
(* The inductive invariant.                                                 *)

\* Nothing is answered before the upstream is asked, and nothing is kept of an
\* upstream that did not answer.
Turns ==
    /\ phase \in {"arrived", "forward", "upstream", "respond", "done"}
    /\ phase \in {"arrived", "forward"} => sent = <<>>
    /\ phase \in {"upstream", "respond"} => sent # <<>>
    /\ phase \in {"arrived", "forward", "upstream"} => resp = None
    /\ phase # "done" => client = None
    /\ phase = "respond" => DOMAIN resp.header = HeaderNames /\ resp.doc \in Answers(req.api)
    /\ req \in Requests

\* The one call of the model cannot be repeated by net/http.
CalledOnce == sent = <<>> \/ (sent = <<sent[1]>> /\ ~sent[1].getBody)

\* What is reported was found in this request, by rules of this policy.
StateIsFound ==
    /\ out.demask \in BOOLEAN
    /\ out.demask => \E found \in SUBSET Sensitive : out.state = MaskingState(found)

IInv == Turns /\ CalledOnce /\ StateIsFound /\ VerdictIsOurs /\ AuditHoldsNoSecrets

-----------------------------------------------------------------------------
(* The outcome headers.                                                     *)

LEMMA StateOriginals ==
  ASSUME NEW found \in SUBSET Sensitive
  PROVE  /\ Originals(MaskingState(found)) = found
         /\ MaskingState(found).types = {r.type : r \in UNION {Hits(w) : w \in found}}
<1> DEFINE first(w) == CHOOSE r \in Hits(w) : \A q \in Hits(w) : r.id <= q.id
           replacements == {[original |-> w, rule |-> first(w)] : w \in found}
<1>1. Originals(MaskingState(found)) = {r.original : r \in replacements}
  BY DEF Originals, MaskingState
<1>2. {r.original : r \in replacements} = found
  <2> HIDE DEF first
  <2>1. \A r \in replacements : r.original \in found
    OBVIOUS
  <2>2. ASSUME NEW w \in found PROVE \E r \in replacements : r.original = w
    <3>1. [original |-> w, rule |-> first(w)] \in replacements
      OBVIOUS
    <3> QED
      BY <3>1
  <2> HIDE DEF replacements
  <2> QED
    BY <2>1, <2>2
<1>3. MaskingState(found).types = {r.type : r \in UNION {Hits(w) : w \in found}}
  BY DEF MaskingState
<1> QED
  BY <1>1, <1>2, <1>3

\* Whatever the upstream sent, a header under one of the service's names is
\* the service's or is gone.
LEMMA HeadersAreOurs ==
  ASSUME StateIsFound, NEW header, DOMAIN header = HeaderNames
  PROVE  LET h == SetTriggeredHeaders(header)
         IN  /\ "types" \in cfg.named =>
                  h["types"] = IF out.demask
                               THEN <<"ours", {r.type : r \in UNION {Hits(w) : w \in Originals(out.state)}}>> ELSE <<>>
             /\ (cfg.expose /\ {"rules", "counts"} \subseteq cfg.named /\ out.demask) =>
                  DOMAIN h["counts"][2] = h["rules"][2]
<1> DEFINE h == SetTriggeredHeaders(header)
<1>1. ASSUME NEW name \in OwnedHeaders
      PROVE  h[name] = IF out.demask THEN TriggeredHeaders(out.state)[name] ELSE <<>>
  BY DEF SetTriggeredHeaders, OwnedHeaders, HeaderNames
<1> HIDE DEF h
<1>2. ASSUME "types" \in cfg.named
      PROVE  h["types"] = IF out.demask
                          THEN <<"ours", {r.type : r \in UNION {Hits(w) : w \in Originals(out.state)}}>> ELSE <<>>
  <2>1. "types" \in OwnedHeaders
    BY <1>2 DEF OwnedHeaders
  <2>2. TriggeredHeaders(out.state)["types"] = <<"ours", out.state.types>>
    BY <2>1 DEF TriggeredHeaders
  <2>3. out.demask => out.state.types = {r.type : r \in UNION {Hits(w) : w \in Originals(out.state)}}
    <3>1. SUFFICES ASSUME out.demask
                   PROVE  out.state.types = {r.type : r \in UNION {Hits(w) : w \in Originals(out.state)}}
      OBVIOUS
    <3>2. PICK found \in SUBSET Sensitive : out.state = MaskingState(found)
      BY <3>1 DEF StateIsFound
    <3> QED
      BY <3>2, StateOriginals
  <2> QED
    BY <1>1, <2>1, <2>2, <2>3
<1>3. ASSUME cfg.expose, {"rules", "counts"} \subseteq cfg.named, out.demask
      PROVE  DOMAIN h["counts"][2] = h["rules"][2]
  <2>1. "rules" \in OwnedHeaders /\ "counts" \in OwnedHeaders
    BY <1>3 DEF OwnedHeaders
  <2>2. /\ TriggeredHeaders(out.state)["rules"] = <<"ours", out.state.rules>>
        /\ TriggeredHeaders(out.state)["counts"] = <<"ours", ReplacementCounts(out.state)>>
    BY <2>1 DEF TriggeredHeaders
  <2>3. DOMAIN ReplacementCounts(out.state) = out.state.rules
    BY DEF ReplacementCounts
  <2>4. h["rules"] = <<"ours", out.state.rules>> /\ h["counts"] = <<"ours", ReplacementCounts(out.state)>>
    BY <1>1, <1>3, <2>1, <2>2
  <2> QED
    BY <2>3, <2>4
<1> QED
  BY <1>2, <1>3 DEF h

-----------------------------------------------------------------------------
(* The texts of the audit record.                                           *)

Harmless(text) == Words(text) \cap DOMAIN PlaceholderOf = {}

LEMMA HarmlessIsClean ==
  ASSUME NEW text, Harmless(text)
  PROVE  Words(text) \cap Sensitive = {}
  BY DEF Harmless, Sensitive

\* A masked text holds no sensitive word: a placeholder is not one.
LEMMA MaskedIsClean ==
  ASSUME NEW text
  PROVE  Words(MaskText(text)) \cap Sensitive = {}
<1> DEFINE masked == MaskText(text)
<1>1. DOMAIN masked = DOMAIN text
  BY DEF MaskText
<1>2. ASSUME NEW n \in DOMAIN text PROVE masked[n] \notin Sensitive
  <2>1. masked[n] = IF text[n] \in Sensitive THEN PlaceholderOf[text[n]] ELSE text[n]
    BY DEF MaskText
  <2>2. ASSUME text[n] \in Sensitive PROVE PlaceholderOf[text[n]] \notin Sensitive
    BY <2>2, GatewayAssumption DEF Sensitive
  <2> QED
    BY <2>1, <2>2
<1> HIDE DEF masked
<1>3. Words(masked) = {masked[n] : n \in DOMAIN masked}
  BY DEF Words, ToSet
<1> QED
  BY <1>1, <1>2, <1>3 DEF masked

-----------------------------------------------------------------------------
(* The steps.                                                               *)

LEMMA InitEstablishes ==
  ASSUME Init
  PROVE  IInv
<1>1. Turns /\ CalledOnce
  BY DEF Init, Turns, CalledOnce
<1>2. StateIsFound
  BY DEF Init, StateIsFound, Unmasked
<1>3. VerdictIsOurs /\ AuditHoldsNoSecrets
  BY DEF Init, VerdictIsOurs, AuditHoldsNoSecrets
<1> QED
  BY <1>1, <1>2, <1>3 DEF IInv

\* What was found, and what is harmless, is a matter of the policy and of what
\* a step leaves as it is.
LEMMA Frame ==
  ASSUME UNCHANGED <<cfg, eff>>
  PROVE  /\ Sensitive' = Sensitive
         /\ \A found : MaskingState(found)' = MaskingState(found)
         /\ AuditHoldsNoSecrets /\ records' = records => AuditHoldsNoSecrets'
         /\ StateIsFound /\ out' = out => StateIsFound'
<1>1. \A w : Hits(w)' = Hits(w)
  BY DEF Hits
<1>2. Sensitive' = Sensitive
  BY <1>1 DEF Sensitive
<1>3. \A found : MaskingState(found)' = MaskingState(found)
  BY <1>1 DEF MaskingState
<1>4. AuditHoldsNoSecrets /\ records' = records => AuditHoldsNoSecrets'
  BY <1>2 DEF AuditHoldsNoSecrets
<1>5. StateIsFound /\ out' = out => StateIsFound'
  BY <1>2, <1>3 DEF StateIsFound
<1> QED
  BY <1>2, <1>3, <1>4, <1>5

\* Before there is an answer there is no verdict.
LEMMA NoVerdictYet ==
  ASSUME resp' = None \/ client' = None
  PROVE  VerdictIsOurs'
  BY DEF VerdictIsOurs

LEMMA ReadBodyFailsStep ==
  ASSUME IInv, ReadBodyFails
  PROVE  IInv'
<1>1. Turns'
  BY DEF IInv, Turns, ReadBodyFails
<1>2. CalledOnce'
  BY DEF IInv, CalledOnce, ReadBodyFails
<1>3. StateIsFound' /\ AuditHoldsNoSecrets'
  BY Frame DEF IInv, ReadBodyFails
<1>4. VerdictIsOurs'
  BY NoVerdictYet DEF IInv, Turns, ReadBodyFails
<1> QED
  BY <1>1, <1>2, <1>3, <1>4 DEF IInv

\* Only masked texts are recorded, and what is reported was found in them.
LEMMA MaskRequestStep ==
  ASSUME IInv, NEW forwarded, NEW body, NEW fails, MaskRequest(forwarded, body, fails), UNCHANGED <<cfg, eff>>
  PROVE  StateIsFound' /\ AuditHoldsNoSecrets'
<1> DEFINE fields == ExtractRequestContent(body).fields
           masked == [n \in DOMAIN fields |-> MaskText(fields[n].value.text)]
           found == (UNION {Words(fields[n].value.text) : n \in DOMAIN fields}) \cap Sensitive
           records1 == IF cfg.audit THEN records \cup {masked[n] : n \in DOMAIN fields} ELSE records
<1>1. \/ out' = Unmasked(forwarded)
      \/ out' = [doc |-> PatchFields(body, fields, masked), demask |-> TRUE,
                 state |-> MaskingState(found), requestID |-> TRUE]
  BY DEF MaskRequest
<1>2. records' = records \/ records' = records1
  BY DEF MaskRequest
<1>3. StateIsFound'
  <2>1. CASE out' = Unmasked(forwarded)
    BY <2>1 DEF StateIsFound, Unmasked
  <2>2. CASE out' = [doc |-> PatchFields(body, fields, masked), demask |-> TRUE,
                     state |-> MaskingState(found), requestID |-> TRUE]
    <3>1. found \in SUBSET Sensitive /\ out'.demask = TRUE /\ out'.state = MaskingState(found)
      BY <2>2
    <3>2. PICK f \in SUBSET Sensitive : out'.state = MaskingState(f)
      BY <3>1
    <3>3. Sensitive' = Sensitive /\ MaskingState(f)' = MaskingState(f)
      BY Frame
    <3> HIDE DEF found
    <3> QED
      BY <3>1, <3>2, <3>3 DEF StateIsFound
  <2> QED
    BY <1>1, <2>1, <2>2
<1>4. AuditHoldsNoSecrets'
  <2>1. \A n \in DOMAIN fields : Words(masked[n]) \cap Sensitive = {}
    BY MaskedIsClean
  <2>2. \A text \in records1 : Words(text) \cap Sensitive = {}
    <3> HIDE DEF fields, masked
    <3>1. \A text \in {masked[n] : n \in DOMAIN fields} : Words(text) \cap Sensitive = {}
      BY <2>1
    <3> QED
      BY <3>1 DEF IInv, AuditHoldsNoSecrets
  <2>3. \A text \in records' : Words(text) \cap Sensitive = {}
    <3> HIDE DEF records1
    <3> QED
      BY <1>2, <2>2 DEF IInv, AuditHoldsNoSecrets
  <2> QED
    BY <2>3, Frame DEF AuditHoldsNoSecrets
<1> QED
  BY <1>3, <1>4

LEMMA ServeHTTPStep ==
  ASSUME IInv, NEW fails \in BOOLEAN, ServeHTTP(fails)
  PROVE  IInv'
<1>1. UNCHANGED <<cfg, req, eff, sent, resp, client>> /\ phase = "arrived" /\ phase' = "forward"
  BY DEF ServeHTTP
<1>2. Turns'
  BY <1>1 DEF IInv, Turns
<1>3. CalledOnce'
  BY <1>1 DEF IInv, CalledOnce
<1>4. StateIsFound' /\ AuditHoldsNoSecrets'
  <2>1. CASE Maskable
    BY <1>1, <2>1, MaskRequestStep DEF ServeHTTP
  <2>2. CASE ~Maskable
    <3>1. out' = Unmasked(req.doc) /\ records' = records
      BY <2>2 DEF ServeHTTP
    <3>2. StateIsFound'
      BY <3>1 DEF StateIsFound, Unmasked
    <3> QED
      BY <1>1, <3>1, <3>2, Frame DEF IInv
  <2> QED
    BY <2>1, <2>2
<1>5. VerdictIsOurs'
  BY <1>1, NoVerdictYet DEF IInv, Turns
<1> QED
  BY <1>2, <1>3, <1>4, <1>5 DEF IInv

LEMMA ForwardStep ==
  ASSUME IInv, Forward
  PROVE  IInv'
<1>1. Turns'
  BY DEF IInv, Turns, Forward
<1>2. CalledOnce'
  <2>1. sent = <<>> /\ (sent' = sent \/ sent' = Append(sent, OutRequest))
    BY DEF IInv, Turns, Forward
  <2>2. Append(<<>>, OutRequest) = <<OutRequest>> /\ OutRequest.getBody = FALSE
    BY DEF OutRequest
  <2>3. CASE sent' = sent
    BY <2>1, <2>3 DEF CalledOnce
  <2>4. CASE sent' = <<OutRequest>>
    <3>1. sent'[1] = OutRequest
      BY <2>4
    <3> QED
      BY <2>2, <2>4, <3>1 DEF CalledOnce
  <2> QED
    BY <2>1, <2>2, <2>3, <2>4
<1>3. StateIsFound' /\ AuditHoldsNoSecrets'
  BY Frame DEF IInv, Forward
<1>4. VerdictIsOurs'
  BY NoVerdictYet DEF IInv, Turns, Forward
<1> QED
  BY <1>1, <1>2, <1>3, <1>4 DEF IInv

\* net/http does not send a request again whose body it cannot read again.
LEMMA ConnectionBreaksStep ==
  ASSUME IInv, ConnectionBreaks
  PROVE  IInv'
<1>1. sent' = sent
  <2>1. sent # <<>> /\ sent = <<sent[1]>> /\ ~sent[1].getBody
    BY DEF ConnectionBreaks, IInv, Turns, CalledOnce
  <2>2. Len(sent) = 1
    BY <2>1
  <2>3. Last(sent) = sent[1]
    BY <2>2 DEF Last
  <2> QED
    BY <2>1, <2>3 DEF ConnectionBreaks
<1>2. Turns'
  BY <1>1 DEF IInv, Turns, ConnectionBreaks
<1>3. CalledOnce'
  BY <1>1 DEF IInv, CalledOnce
<1>4. StateIsFound' /\ AuditHoldsNoSecrets'
  BY Frame DEF IInv, ConnectionBreaks
<1>5. VerdictIsOurs'
  BY NoVerdictYet DEF IInv, Turns, ConnectionBreaks
<1> QED
  BY <1>2, <1>3, <1>4, <1>5 DEF IInv

LEMMA ClientGoneStep ==
  ASSUME IInv, ClientGone
  PROVE  IInv'
<1>1. Turns' /\ CalledOnce'
  BY DEF IInv, Turns, CalledOnce, ClientGone
<1>2. StateIsFound' /\ AuditHoldsNoSecrets'
  BY Frame DEF IInv, ClientGone
<1>3. VerdictIsOurs'
  BY NoVerdictYet DEF IInv, Turns, ClientGone
<1> QED
  BY <1>1, <1>2, <1>3 DEF IInv

LEMMA UpstreamAnswersStep ==
  ASSUME IInv, NEW status, NEW ctype, NEW doc \in Answers(req.api), NEW compressed, NEW own,
         UpstreamAnswers(status, ctype, doc, compressed, own)
  PROVE  IInv'
<1>1. DOMAIN resp'.header = HeaderNames /\ resp'.doc \in Answers(req.api)
  BY DEF UpstreamAnswers, HeaderNames
<1>2. Turns' /\ CalledOnce'
  BY <1>1 DEF IInv, Turns, CalledOnce, UpstreamAnswers
<1>3. StateIsFound' /\ AuditHoldsNoSecrets'
  BY Frame DEF IInv, UpstreamAnswers
<1>4. VerdictIsOurs'
  BY NoVerdictYet DEF IInv, Turns, UpstreamAnswers
<1> QED
  BY <1>2, <1>3, <1>4 DEF IInv

-----------------------------------------------------------------------------
(* The answer.                                                              *)

\* The headers of every answer that follows one of the upstream.
LEMMA VerdictStep ==
  ASSUME StateIsFound, UNCHANGED <<cfg, eff, out>>, NEW header, DOMAIN header = HeaderNames,
         \A name \in {"types", "rules", "counts"} : client'.header[name] = SetTriggeredHeaders(header)[name]
  PROVE  VerdictIsOurs'
<1>1. \A w : Hits(w)' = Hits(w)
  BY DEF Hits
<1> DEFINE verdict == <<"ours", {r.type : r \in UNION {Hits(w) : w \in Originals(out.state)}}>>
<1>2. verdict' = verdict
  BY <1>1 DEF Originals
<1>3. "types" \in cfg.named => client'.header["types"] = IF out.demask THEN verdict ELSE <<>>
  BY HeadersAreOurs
<1>4. (cfg.expose /\ {"rules", "counts"} \subseteq cfg.named /\ out.demask) =>
         DOMAIN client'.header["counts"][2] = client'.header["rules"][2]
  BY HeadersAreOurs
<1> HIDE DEF verdict
<1> QED
  BY <1>2, <1>3, <1>4 DEF VerdictIsOurs, verdict

LEMMA RelayStep ==
  ASSUME IInv, Relay
  PROVE  IInv'
<1>1. Turns' /\ CalledOnce'
  BY DEF IInv, Turns, CalledOnce, Relay
<1>2. StateIsFound' /\ AuditHoldsNoSecrets'
  BY Frame DEF IInv, Relay
<1>3. VerdictIsOurs'
  BY VerdictStep DEF IInv, Turns, Relay
<1> QED
  BY <1>1, <1>2, <1>3 DEF IInv

LEMMA DemaskSSEStep ==
  ASSUME IInv, NEW texts \in StreamTexts, DemaskSSE(texts)
  PROVE  IInv'
<1>1. Turns' /\ CalledOnce' /\ StateIsFound'
  BY Frame DEF IInv, Turns, CalledOnce, DemaskSSE
<1>2. AuditHoldsNoSecrets'
  <2>1. \A text \in texts : Words(text) \cap Sensitive = {}
    BY HarmlessIsClean, GatewayAssumption DEF Harmless
  <2>2. records' = records \/ records' = records \cup texts
    BY DEF DemaskSSE
  <2>3. Sensitive' = Sensitive
    BY Frame DEF DemaskSSE
  <2> QED
    BY <2>1, <2>2, <2>3 DEF IInv, AuditHoldsNoSecrets
<1>3. VerdictIsOurs'
  <2> DEFINE header == [resp.header EXCEPT !["length"] = <<>>]
  <2>1. DOMAIN header = HeaderNames
    BY DEF IInv, Turns, DemaskSSE
  <2>2. client'.header = SetTriggeredHeaders(header)
    BY DEF DemaskSSE
  <2> HIDE DEF header
  <2> QED
    BY <2>1, <2>2, VerdictStep DEF IInv, DemaskSSE
<1> QED
  BY <1>1, <1>2, <1>3 DEF IInv

\* The texts of an answer are recorded as the model wrote them.
LEMMA AnswerTextsAreClean ==
  ASSUME Turns, phase = "respond",
         NEW text \in CollectMaskedResponseTexts(IF resp.compressed THEN <<>> ELSE ExtractOutputFields(resp.doc))
  PROVE  Words(text) \cap Sensitive = {}
<1> DEFINE doc == resp.doc
           known == {Chat!ExtractOutputFields(doc), Responses!ExtractOutputFields(doc),
                     Messages!ExtractResponseFields(doc)}
           fields == IF resp.compressed THEN <<>> ELSE ExtractOutputFields(doc)
<1>1. ExtractOutputFields(doc) \in known \cup {<<>>}
  BY Zenon DEF ExtractOutputFields
<1> HIDE DEF known
<1>2. fields \in known \cup {<<>>}
  BY <1>1
<1> HIDE DEF fields
<1>3. PICK n \in TextsOf(fields) : text = fields[n].value.text
  BY DEF CollectMaskedResponseTexts, fields
<1>4. fields # <<>>
  BY <1>3 DEF TextsOf
<1>5. doc \in Answers(req.api) /\ req \in Requests
  BY DEF Turns
<1>6. Harmless(fields[n].value.text)
  BY <1>2, <1>4, <1>5, GatewayAssumption DEF known, Harmless
<1> QED
  BY <1>3, <1>6, HarmlessIsClean

LEMMA DemaskFullStep ==
  ASSUME IInv, NEW failing, DemaskFull(failing)
  PROVE  IInv'
<1> DEFINE fields == IF resp.compressed THEN <<>> ELSE ExtractOutputFields(resp.doc)
           texts == CollectMaskedResponseTexts(fields)
           header == SetTriggeredHeaders(resp.header)
<1>1. Turns' /\ CalledOnce' /\ StateIsFound'
  BY Frame DEF IInv, Turns, CalledOnce, DemaskFull
<1>2. AuditHoldsNoSecrets'
  <2>1. \A text \in texts : Words(text) \cap Sensitive = {}
    BY AnswerTextsAreClean DEF IInv, DemaskFull
  <2>2. records' = records \/ records' = records \cup texts
    BY DEF DemaskFull
  <2>3. Sensitive' = Sensitive
    BY Frame DEF DemaskFull
  <2> HIDE DEF texts
  <2> QED
    BY <2>1, <2>2, <2>3 DEF IInv, AuditHoldsNoSecrets
<1>3. VerdictIsOurs'
  <2>1. PICK v : client'.header = [header EXCEPT !["length"] = v]
    BY DEF DemaskFull
  <2>2. DOMAIN header = DOMAIN resp.header /\ DOMAIN resp.header = HeaderNames
    BY DEF SetTriggeredHeaders, IInv, Turns, DemaskFull
  <2>3. \A name \in {"types", "rules", "counts"} : client'.header[name] = header[name]
    <3> HIDE DEF header
    <3> QED
      BY <2>1, <2>2 DEF HeaderNames
  <2> QED
    BY <2>2, <2>3, VerdictStep DEF IInv, DemaskFull
<1> QED
  BY <1>1, <1>2, <1>3 DEF IInv

LEMMA UnreadableResponseStep ==
  ASSUME IInv, UnreadableResponse
  PROVE  IInv'
<1>1. Turns' /\ CalledOnce'
  BY DEF IInv, Turns, CalledOnce, UnreadableResponse
<1>2. StateIsFound' /\ AuditHoldsNoSecrets'
  BY Frame DEF IInv, UnreadableResponse
<1>3. VerdictIsOurs'
  <2> DEFINE header == [resp.header EXCEPT !["length"] = <<>>]
  <2>1. DOMAIN header = HeaderNames
    BY DEF IInv, Turns, UnreadableResponse
  <2>2. client'.header = SetTriggeredHeaders(header)
    BY DEF UnreadableResponse, Error
  <2> HIDE DEF header
  <2> QED
    BY <2>1, <2>2, VerdictStep DEF IInv, UnreadableResponse
<1> QED
  BY <1>1, <1>2, <1>3 DEF IInv

LEMMA Stutter ==
  ASSUME IInv, UNCHANGED vars
  PROVE  IInv'
<1>1. Turns' /\ CalledOnce'
  BY DEF IInv, Turns, CalledOnce, vars
<1>2. StateIsFound' /\ AuditHoldsNoSecrets'
  BY Frame DEF IInv, vars
<1>3. VerdictIsOurs'
  <2>1. \A w : Hits(w)' = Hits(w)
    BY DEF Hits, vars
  <2> QED
    BY <2>1 DEF IInv, VerdictIsOurs, Originals, vars
<1> QED
  BY <1>1, <1>2, <1>3 DEF IInv

LEMMA NextPreserves ==
  ASSUME IInv, [Next]_vars
  PROVE  IInv'
<1>1. CASE ReadBodyFails
  BY <1>1, ReadBodyFailsStep
<1>2. CASE \E fails \in BOOLEAN : ServeHTTP(fails)
  BY <1>2, ServeHTTPStep
<1>3. CASE Forward
  BY <1>3, ForwardStep
<1>4. CASE ConnectionBreaks
  BY <1>4, ConnectionBreaksStep
<1>5. CASE ClientGone
  BY <1>5, ClientGoneStep
<1>6. CASE \E doc \in Answers(req.api), compressed, own \in BOOLEAN :
             \/ \E ctype \in {"application/json", "text/event-stream", "text/plain"} :
                   UpstreamAnswers(200, ctype, doc, compressed, own)
             \/ UpstreamAnswers(500, "application/json", doc, compressed, own)
  BY <1>6, UpstreamAnswersStep
<1>7. CASE Relay
  BY <1>7, RelayStep
<1>8. CASE UnreadableResponse
  BY <1>8, UnreadableResponseStep
<1>9. CASE \E texts \in StreamTexts : DemaskSSE(texts)
  BY <1>9, DemaskSSEStep
<1>10. CASE \E failing \in {{}, {1}, {1, 2}} : DemaskFull(failing)
  BY <1>10, DemaskFullStep
<1>11. CASE Done \/ UNCHANGED vars
  BY <1>11, Stutter DEF Done
<1> QED
  BY <1>1, <1>2, <1>3, <1>4, <1>5, <1>6, <1>7, <1>8, <1>9, <1>10, <1>11 DEF Next

-----------------------------------------------------------------------------
(* The theorems.                                                            *)

\* The inductive invariant holds in every reachable state.
THEOREM InvCorrect == Spec => []IInv
<1>1. Init => IInv
  BY InitEstablishes
<1>2. IInv /\ [Next]_vars => IInv'
  BY NextPreserves
<1> QED
  BY <1>1, <1>2, PTL DEF Spec

\* One request of a client is at most one call of the model: when a reused
\* connection breaks, net/http has no body to send again.
THEOREM UpstreamCalledOnceCorrect == Spec => []UpstreamCalledOnce
<1>1. IInv => UpstreamCalledOnce
  <2> SUFFICES ASSUME IInv
               PROVE  Len(sent) <= 1
    BY DEF UpstreamCalledOnce
  <2>1. CASE sent = <<>>
    <3>1. Len(sent) = 0
      BY <2>1
    <3> QED
      BY <3>1
  <2>2. CASE sent # <<>>
    <3>1. sent = <<sent[1]>>
      BY <2>2 DEF IInv, CalledOnce
    <3>2. Len(<<sent[1]>>) = 1
      OBVIOUS
    <3>3. Len(sent) = 1
      BY <3>1, <3>2
    <3> QED
      BY <3>3
  <2> QED
    BY <2>1, <2>2
<1> QED
  BY <1>1, InvCorrect, PTL

\* The outcome headers are the service's verdict, whatever the upstream sends.
THEOREM VerdictIsOursCorrect == Spec => []VerdictIsOurs
<1>1. IInv => VerdictIsOurs
  BY DEF IInv
<1> QED
  BY <1>1, InvCorrect, PTL

\* The audit trail holds no sensitive value.
THEOREM AuditHoldsNoSecretsCorrect == Spec => []AuditHoldsNoSecrets
<1>1. IInv => AuditHoldsNoSecrets
  BY DEF IInv
<1> QED
  BY <1>1, InvCorrect, PTL

-----------------------------------------------------------------------------
(* What is not to be masked is handed through.                              *)

Inspected == Guarded /\ eff.enabled /\ eff.mode # "detect"

\* Of the two halves of the path: what is decided for the request holds until
\* it is sent, and an answer's length is that of its document.
Handed ==
    /\ (phase = "forward" \/ sent # <<>>) /\ ~Inspected => out.doc = req.doc
    /\ sent # <<>> => sent[1].doc = out.doc
    /\ out.demask => Inspected
    /\ phase = "respond" => resp.header["length"] = <<"of", resp.doc>>
    /\ client # None /\ client.full =>
          /\ sent # <<>>
          /\ client.header["length"] = <<"of", client.doc>>
          /\ ~out.demask => client.doc = resp.doc

LEMMA MaskRequestDecides ==
  ASSUME NEW forwarded, NEW body, NEW fails, MaskRequest(forwarded, body, fails)
  PROVE  out' = Unmasked(forwarded) \/ (eff.mode # "detect" /\ out'.demask)
  BY DEF MaskRequest

LEMMA HandedByRequest ==
  ASSUME IInv, Handed,
         ReadBodyFails \/ (\E fails \in BOOLEAN : ServeHTTP(fails)) \/ Forward \/ ConnectionBreaks \/ ClientGone
  PROVE  Handed'
<1>1. Inspected' = Inspected
  BY DEF Inspected, Guarded, Resolve, ReadBodyFails, ServeHTTP, Forward, ConnectionBreaks, ClientGone
<1>2. CASE ReadBodyFails
  <2>1. client' = Error(ReadBody) /\ ~client'.full
    BY <1>2 DEF ReadBodyFails, Error
  <2> QED
    BY <1>1, <1>2, <2>1 DEF Handed, IInv, Turns, ReadBodyFails
<1>3. ASSUME NEW fails \in BOOLEAN, ServeHTTP(fails)
      PROVE  Handed'
  <2>1. (~Inspected => out'.doc = req.doc) /\ (out'.demask => Inspected)
    <3>1. CASE Maskable
      <4>1. eff.mode = "detect" => CollapsedBody(req.doc).forwarded = req.doc
        BY DEF CollapsedBody
      <4>2. out' = Unmasked(CollapsedBody(req.doc).forwarded) \/ (eff.mode # "detect" /\ out'.demask)
        <5>1. MaskRequest(CollapsedBody(req.doc).forwarded, CollapsedBody(req.doc).scanned, fails)
          BY <1>3, <3>1 DEF ServeHTTP
        <5> QED
          BY <5>1, MaskRequestDecides
      <4> QED
        BY <3>1, <4>1, <4>2 DEF Maskable, Inspected, Unmasked
    <3>2. CASE ~Maskable
      BY <1>3, <3>2 DEF ServeHTTP, Unmasked
    <3> QED
      BY <3>1, <3>2
  <2> QED
    BY <1>1, <1>3, <2>1 DEF Handed, IInv, Turns, ServeHTTP
<1>4. CASE Forward
  <2>1. CASE UpstreamURL(req.path) = <<>>
    <3>1. ~client'.full
      BY <1>4, <2>1 DEF Forward, Error
    <3> QED
      BY <1>1, <1>4, <2>1, <3>1 DEF Handed, IInv, Turns, Forward
  <2>2. CASE UpstreamURL(req.path) # <<>>
    <3>1. sent = <<>> /\ sent' = Append(sent, OutRequest) /\ client' = None /\ OutRequest.doc = out.doc
      BY <1>4, <2>2 DEF IInv, Turns, Forward, OutRequest
    <3>2. sent'[1].doc = out.doc
      BY <3>1
    <3> QED
      BY <1>1, <1>4, <2>2, <3>1, <3>2 DEF Handed, Forward
  <2> QED
    BY <2>1, <2>2
<1>5. CASE ConnectionBreaks
  <2>1. sent' = sent /\ client' = Error(502) /\ phase' = "done"
    <3>1. sent # <<>> /\ sent = <<sent[1]>> /\ ~sent[1].getBody
      BY <1>5 DEF ConnectionBreaks, IInv, Turns, CalledOnce
    <3>2. Last(sent) = sent[1]
      BY <3>1 DEF Last
    <3> QED
      BY <1>5, <3>1, <3>2 DEF ConnectionBreaks
  <2>2. ~client'.full
    BY <2>1 DEF Error
  <2> QED
    BY <1>1, <1>5, <2>1, <2>2 DEF Handed, ConnectionBreaks
<1>6. CASE ClientGone
  BY <1>1, <1>6 DEF Handed, ClientGone, IInv, Turns
<1> QED
  BY <1>2, <1>3, <1>4, <1>5, <1>6

\* The outcome headers are none of the message's own.
LEMMA LengthStays ==
  ASSUME NEW header, "length" \in DOMAIN header
  PROVE  SetTriggeredHeaders(header)["length"] = header["length"] /\ "length" \in DOMAIN SetTriggeredHeaders(header)
  BY DEF SetTriggeredHeaders, OwnedHeaders

LEMMA HandedByAnswer ==
  ASSUME IInv, Handed, NEW doc, NEW compressed, NEW own, NEW status, NEW ctype, NEW texts, NEW failing,
         \/ UpstreamAnswers(status, ctype, doc, compressed, own)
         \/ Relay \/ UnreadableResponse \/ DemaskSSE(texts) \/ DemaskFull(failing) \/ UNCHANGED vars
  PROVE  Handed'
<1>1. Inspected' = Inspected
  BY DEF Inspected, Guarded, Resolve, UpstreamAnswers, Relay, UnreadableResponse, DemaskSSE, DemaskFull, vars
<1>2. CASE UpstreamAnswers(status, ctype, doc, compressed, own)
  <2>1. resp'.header["length"] = <<"of", resp'.doc>> /\ client' = None
    BY <1>2 DEF UpstreamAnswers, IInv, Turns
  <2> QED
    BY <1>1, <1>2, <2>1 DEF Handed, UpstreamAnswers, IInv, Turns
<1>3. CASE Relay
  <2>1. client'.header["length"] = <<"of", client'.doc>> /\ client'.doc = resp.doc
    <3>1. "length" \in DOMAIN resp.header /\ resp.header["length"] = <<"of", resp.doc>>
      BY <1>3 DEF Relay, Handed, IInv, Turns, HeaderNames
    <3>2. client'.header = SetTriggeredHeaders(resp.header) /\ client'.doc = resp.doc
      BY <1>3 DEF Relay
    <3> QED
      BY <3>1, <3>2, LengthStays
  <2> QED
    BY <1>1, <1>3, <2>1 DEF Handed, Relay, IInv, Turns
<1>4. CASE UnreadableResponse
  <2>1. ~client'.full
    BY <1>4 DEF UnreadableResponse, Error
  <2> QED
    BY <1>1, <1>4, <2>1 DEF Handed, UnreadableResponse
<1>5. CASE DemaskSSE(texts)
  <2>1. ~client'.full
    BY <1>5 DEF DemaskSSE
  <2> QED
    BY <1>1, <1>5, <2>1 DEF Handed, DemaskSSE
<1>6. CASE DemaskFull(failing)
  <2>1. client'.header["length"] = <<"of", client'.doc>>
    <3>1. PICK patched : /\ client'.doc = patched
                         /\ client'.header = [SetTriggeredHeaders(resp.header) EXCEPT !["length"] = <<"of", patched>>]
      BY <1>6 DEF DemaskFull
    <3>2. "length" \in DOMAIN SetTriggeredHeaders(resp.header)
      BY <1>6, LengthStays DEF DemaskFull, IInv, Turns, HeaderNames
    <3> QED
      BY <3>1, <3>2
  <2> QED
    BY <1>1, <1>6, <2>1 DEF Handed, DemaskFull, IInv, Turns
<1>7. CASE UNCHANGED vars
  BY <1>1, <1>7 DEF Handed, vars
<1> QED
  BY <1>2, <1>3, <1>4, <1>5, <1>6, <1>7

\* A path, a policy or a mode that is not to be masked leaves the request's
\* bytes alone; an answer to a request that was not masked is the upstream's;
\* and the length that is announced is that of the document that follows.
PassesThrough ==
    /\ \A n \in DOMAIN sent : ~Inspected => sent[n].doc = req.doc
    /\ client # None /\ client.full =>
          /\ client.header["length"] = <<"of", client.doc>>
          /\ ~Inspected => client.doc = resp.doc

\* What the policy leaves alone travels unchanged in both directions.
THEOREM PassesThroughCorrect == Spec => []PassesThrough
<1>1. Init => Handed
  BY DEF Init, Handed, Unmasked
<1>2. IInv /\ Handed /\ [Next]_vars => Handed'
  <2> SUFFICES ASSUME IInv, Handed, [Next]_vars PROVE Handed'
    OBVIOUS
  <2>1. \/ ReadBodyFails \/ (\E fails \in BOOLEAN : ServeHTTP(fails)) \/ Forward \/ ConnectionBreaks \/ ClientGone
        \/ \E status, ctype, doc, compressed, own : UpstreamAnswers(status, ctype, doc, compressed, own)
        \/ Relay \/ UnreadableResponse \/ (\E texts : DemaskSSE(texts)) \/ (\E failing : DemaskFull(failing))
        \/ UNCHANGED vars
    BY Zenon DEF Next, Done
  <2> QED
    BY <2>1, HandedByRequest, HandedByAnswer
<1>3. IInv /\ Handed => PassesThrough
  <2> SUFFICES ASSUME IInv, Handed PROVE PassesThrough
    OBVIOUS
  <2>1. ASSUME NEW n \in DOMAIN sent PROVE sent # <<>> /\ sent[n] = sent[1]
    <3>1. sent # <<>>
      OBVIOUS
    <3>2. sent = <<sent[1]>>
      BY <3>1 DEF IInv, CalledOnce
    <3>3. DOMAIN <<sent[1]>> = {1}
      OBVIOUS
    <3>4. n = 1
      BY <3>2, <3>3
    <3> QED
      BY <3>1, <3>4
  <2> QED
    BY <2>1 DEF Handed, PassesThrough
<1> QED
  BY <1>1, <1>2, <1>3, InvCorrect, PTL DEF Spec
=============================================================================
