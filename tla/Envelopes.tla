----------------------------- MODULE Envelopes ------------------------------
(***************************************************************************)
(* What a session makes of the text of one frame: parsing, and what it      *)
(* takes out of an envelope before it hands it on (session.ts, jsonrpc.ts   *)
(* of the adapter, method-policy.ts and redactor.ts of core).  Which frames *)
(* the pending requests and the policy let through is ProxySession's; here  *)
(* every frame is one those gates admit, and `matched` is the method of the *)
(* pending request that a response answers, Absent when there is none.      *)
(*                                                                         *)
(* A frame is [bytes, newline, json, depth, envelope]: its length, whether  *)
(* a line end is in it, whether it is JSON, how deep, and the object it is, *)
(* Malformed when it is no JSON-RPC 2.0 object.  An envelope has the fields *)
(* id, method, params, result and error, each Absent or Malformed, and      *)
(* `extra`, the set of its other keys.  Params are [name, arguments, extra],*)
(* a result [tools, nextCursor, extra], an error [message, data, extra].    *)
(***************************************************************************)
EXTENDS PolicyValidation, Integers

CONSTANTS
  MaxFrameBytes,
  MaxJsonDepth

-----------------------------------------------------------------------------
(* Parsing.                                                                *)

EnvelopeOk(envelope) ==
  /\ Given(envelope)
  /\ envelope.id # Malformed /\ envelope.method # Malformed
  /\ IF envelope.method # Absent
     THEN envelope.result = Absent /\ envelope.error = Absent
     ELSE /\ envelope.id # Absent
          /\ (envelope.result = Absent) # (envelope.error = Absent)
          /\ envelope.error # Malformed

\* Why a frame is refused; Absent when it is not.
ParseFailure(frame) ==
  IF frame.bytes > MaxFrameBytes THEN "jsonrpc.frame_too_large"
  ELSE IF frame.newline \/ ~frame.json THEN "jsonrpc.invalid"
  ELSE IF frame.depth > MaxJsonDepth THEN "jsonrpc.too_deep"
  ELSE IF ~EnvelopeOk(frame.envelope) THEN "jsonrpc.invalid"
  ELSE Absent

IsRequest(envelope) == envelope.method # Absent

EmptyParams == [name |-> Absent, arguments |-> Absent, extra |-> {}]
EmptyResult == [tools |-> Absent, nextCursor |-> Absent, extra |-> {}]

-----------------------------------------------------------------------------
(* Methods.                                                                *)

MethodCode(method, policy) ==
  IF method = "" THEN "jsonrpc.invalid"
  ELSE IF method \in ToSet(policy.methodPolicy.allowedMethods) THEN "method.supported"
  ELSE "method.unsupported"

ServerOriginMethodCode(envelope, policy) ==
  LET code == MethodCode(envelope.method, policy)
  IN  IF code # "method.supported" THEN code
      ELSE IF envelope.method # "ping" THEN "method.server_origin_disallowed"
      ELSE IF envelope.params \notin {Absent, EmptyParams} THEN "method.server_origin_ping_params"
      ELSE code

ShapeOk(envelope) ==
  /\ envelope.method \in {"initialize", "ping", "tools/list", "tools/call"} => envelope.id # Absent
  /\ envelope.method = "notifications/initialized" => envelope.id = Absent

ToolCallParamsOk(params) ==
  /\ Given(params) /\ params.extra = {} /\ Given(params.name)

-----------------------------------------------------------------------------
(* What is taken out.  A message of an error is [text, kinds]: the kinds of *)
(* detector that find something in it.                                     *)

Detectors(redaction) ==
  {"secret_like", "path"} \cup
    (IF redaction = Absent THEN {} ELSE {d.kind : d \in ToSet(redaction.detectors)})

RedactedMessage == [text |-> "upstream error message redacted", kinds |-> {}]

SanitizeRequest(envelope) == [envelope EXCEPT !.extra = {}]

\* Params are no part of a response.
SanitizeResponse(envelope) == [envelope EXCEPT !.extra = {}, !.params = Absent]

SanitizeError(envelope, redaction) ==
  IF envelope.error = Absent THEN envelope
  ELSE [envelope EXCEPT
          !.error = [message |-> IF @.message.kinds \cap Detectors(redaction) # {}
                                 THEN RedactedMessage ELSE @.message,
                     data |-> FALSE, extra |-> {}]]

ErrorRedactionCode(error, sanitized) ==
  IF error.extra # {} \/ (error.data /\ error.message # sanitized.message)
  THEN "jsonrpc.upstream_error_redacted"
  ELSE IF error.message # sanitized.message THEN "jsonrpc.upstream_error_message_redacted"
  ELSE "jsonrpc.upstream_error_data_redacted"

-----------------------------------------------------------------------------
(* Discovery.  A tool is [name, keywords, description, title, inputSchema,  *)
(* outputSchema, annotations, extra]; one that is no object with a name is  *)
(* Malformed.                                                              *)

ToolField ==
  {"name", "keywords", "description", "title", "inputSchema", "outputSchema", "annotations", "extra"}

IsTool(tool) ==
  /\ tool = [field \in ToolField |-> tool[field]]
  /\ \A field \in {"inputSchema", "outputSchema", "annotations"} : tool[field] \in Json \cup {Absent}

MetadataRedactionKeys == {"default", "example", "examples", "$comment", "_meta"}

SanitizedMetadata[v \in Json] ==
  CASE v.json = "array" ->
         [v EXCEPT !.items = [i \in DOMAIN v.items |-> SanitizedMetadata[v.items[i]]]]
    [] v.json = "record" ->
         LET kept == Only(v.fields, {f \in ToSet(v.fields) : f.key \notin MetadataRedactionKeys})
         IN  [v EXCEPT !.fields = [i \in DOMAIN kept |->
                [key |-> kept[i].key, value |-> SanitizedMetadata[kept[i].value]]]]
    [] OTHER -> v

\* Metadata with something taken out is JSON.
ASSUME MetadataAssumption == \A v \in Json : SanitizedMetadata[v] \in Json

\* Mutant: what is no object is copied as it is.
RecordField_CopiesOthers(value) ==
  IF value = Absent THEN Absent
  ELSE IF value.json = "record" THEN SanitizedMetadata[value] ELSE value

\* A field that is copied when it is an object, and dropped when it is not.
RecordField(value) ==
  IF value = Absent THEN Absent
  ELSE IF value.json = "record" THEN SanitizedMetadata[value] ELSE Absent

TextField(value) == IF value = Malformed THEN Absent ELSE value

VisibleDescriptor(tool) ==
  [tool EXCEPT !.description = TextField(@), !.title = TextField(@),
     !.inputSchema = RecordField(@), !.outputSchema = RecordField(@),
     !.annotations = RecordField(@), !.extra = {}]

DuplicateNames(tools) ==
  {tools[i].name : i \in {i \in DOMAIN tools : \E j \in DOMAIN tools \ {i} :
                            /\ tools[i] # Malformed /\ tools[j] # Malformed
                            /\ tools[i].name = tools[j].name}}

VisibleTools(tools, rules) ==
  LET shown(tool) ==
        /\ tool # Malformed
        /\ tool.name \notin DuplicateNames(tools)
        /\ LET classified == [tool EXCEPT !.description = TextField(@)]
           IN  Covered(rules, tool.name, Classify(classified, <<>>))
      visible == Only(tools, {tool \in ToSet(tools) : shown(tool)})
  IN  [i \in DOMAIN visible |-> VisibleDescriptor(visible[i])]

FilterToolList(result, rules) ==
  IF ~Given(result) \/ ~Given(result.tools) THEN [EmptyResult EXCEPT !.tools = <<>>]
  ELSE [tools |-> VisibleTools(result.tools, rules),
        nextCursor |-> TextField(result.nextCursor), extra |-> {}]

-----------------------------------------------------------------------------
(* The two directions: what is handed on, Absent when nothing is, and the   *)
(* codes of the audit events.                                              *)

Handed(envelope, audits) == [forward |-> envelope, audits |-> audits]
Refused(audits, code) == Handed(Absent, Append(audits, code))
When(condition, code) == IF condition THEN <<code>> ELSE <<>>

FromClient(frame, policy, matched) ==
  LET envelope == frame.envelope
      response == SanitizeResponse(envelope)
      request == SanitizeRequest(envelope)
      extra == When(envelope.extra # {}, "jsonrpc.request_extra_fields_redacted")
  IN  IF ParseFailure(frame) # Absent THEN Refused(<<>>, ParseFailure(frame))
      ELSE IF ~IsRequest(envelope)
      THEN IF matched = Absent THEN Refused(<<>>, "jsonrpc.unmatched_response")
           ELSE IF matched = "ping" /\ envelope.result # EmptyResult
           THEN Refused(<<>>, "jsonrpc.invalid")
           ELSE Handed(response, When(response # envelope,
                                      "jsonrpc.response_extra_fields_redacted"))
      ELSE IF MethodCode(envelope.method, policy) # "method.supported"
      THEN Refused(extra, MethodCode(envelope.method, policy))
      ELSE IF ~ShapeOk(envelope) THEN Refused(extra, "jsonrpc.invalid")
      ELSE IF envelope.method = "tools/call" /\ ~ToolCallParamsOk(envelope.params)
      THEN Refused(extra, "jsonrpc.invalid")
      ELSE Handed(request, extra)

FromServer(frame, policy, rules, matched) ==
  LET envelope == frame.envelope
      request == SanitizeRequest(envelope)
      unerring == SanitizeError(envelope, policy.redaction)
      response == SanitizeResponse(unerring)
      audits == When(unerring # envelope, ErrorRedactionCode(envelope.error, unerring.error))
                  \o When(response # unerring, "jsonrpc.response_extra_fields_redacted")
      filtered == FilterToolList(response.result, rules)
      hidden == \/ ~Given(response.result) \/ ~Given(response.result.tools)
                \/ Len(response.result.tools) > Len(filtered.tools)
  IN  IF ParseFailure(frame) # Absent THEN Refused(<<>>, ParseFailure(frame))
      ELSE IF IsRequest(envelope)
      THEN IF ServerOriginMethodCode(envelope, policy) # "method.supported"
           THEN Refused(<<>>, ServerOriginMethodCode(envelope, policy))
           ELSE IF envelope.id = Absent THEN Refused(<<>>, "jsonrpc.invalid")
           ELSE Handed(request, When(request # envelope,
                                     "jsonrpc.request_extra_fields_redacted"))
      ELSE IF matched = Absent THEN Refused(audits, "jsonrpc.unmatched_response")
      ELSE IF matched # "tools/list" \/ response.error # Absent THEN Handed(response, audits)
      ELSE Handed([response EXCEPT !.result = filtered],
                  audits \o When(hidden, "discovery.filtered"))
=============================================================================
