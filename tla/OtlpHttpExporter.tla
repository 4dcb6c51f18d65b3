-------------------------- MODULE OtlpHttpExporter --------------------------
(***************************************************************************)
(* OtlpHttpExporter and its transports (kernel/otlp_http_exporter.cc):     *)
(* ended spans become one JSON request, a transport carries it to the      *)
(* server, the status of the answer becomes the ExportResult.              *)
(*                                                                         *)
(* galay-http and the galay runtime are not part of the repository.  They  *)
(* are modelled from their use here: connect and post end with a result,   *)
(* an error or their timeout, close ends, and each of them may throw.      *)
(***************************************************************************)
EXTENDS Span
INSTANCE OtlpJson

CONSTANTS Exports,      \* calls of exportSpans
          Others,       \* spans that are exported in front of the ones of Spans
          Setups,       \* configurations of the exporter
          StatusCodes   \* the answers of servers and transports

IsSpan(x) ==
    /\ IsIdentity(x.identity) /\ x.kind \in SpanKind /\ IsStatus(x.status)
    /\ \A i \in DOMAIN x.attributes : IsAttribute(x.attributes[i])

(* The header value "default" stands for what sendWithGalayHttp fills in; no *)
(* program gives it.                                                         *)
ASSUME OtlpAssumption ==
    /\ StatusCodes \subseteq Nat /\ None \notin Exports \cup BOOLEAN
    /\ Others \in Seq({Others[i] : i \in DOMAIN Others})
    /\ \A i \in DOMAIN Others : IsSpan(Others[i])
    /\ \A c \in Setups : /\ c.transport \in {"galay", "custom", "unavailable"}
                         /\ c.endpoint \in {"http", "https", "invalid"}
                         /\ c.reject \in BOOLEAN
                         /\ \A i \in DOMAIN c.resource : IsAttribute(c.resource[i])
                         /\ c.scope \in [name : String, version : String]
                         /\ c.headers \in Seq({c.headers[i] : i \in DOMAIN c.headers})
                         /\ \A i \in DOMAIN c.headers : c.headers[i].value # "default"

VARIABLES
    config,   \* m_config and the kind of m_transport
    mutex,    \* GalayHttpTransportState::m_mutex
    runtime,  \* whether m_runtime has been created
    call,     \* call[e]: the position, arguments, status code and result of call e
    wire,     \* wire[e]: how far the request of e got, and the server's answer
    conn      \* conn[e]: the HTTP client of e: "none", "open", "closed", "unwound"

otlpVars == <<config, mutex, runtime, call, wire, conn>>
vars == <<spanVars, otlpVars>>

(* onScheduler: the call is made on a scheduler thread of a galay runtime. *)
IdleCall == [pc |-> "idle", batch |-> <<>>, onScheduler |-> FALSE, status |-> 0,
             result |-> None]

Positions == {"idle", "sending", "locked", "spawned", "connecting", "posting", "closing",
              "responded", "done"}

Exported == SpanRecord \cup {Others[i] : i \in DOMAIN Others}

TypeOK ==
    /\ SpanTypeOK
    /\ config \in Setups
    /\ mutex \in Exports \cup {None}
    /\ runtime \in BOOLEAN
    /\ call \in [Exports -> [pc : Positions, batch : Seq(Exported), onScheduler : BOOLEAN,
                             status : StatusCodes \cup {0}, result : BOOLEAN \cup {None}]]
    /\ wire \in [Exports -> [at : {"nowhere", "sent", "received", "answered"},
                             code : StatusCodes \cup {0}]]
    /\ conn \in [Exports -> {"none", "open", "closed", "unwound"}]

Init ==
    /\ SpanInit
    /\ config \in Setups
    /\ mutex = None /\ runtime = FALSE
    /\ call = [e \in Exports |-> IdleCall]
    /\ wire = [e \in Exports |-> [at |-> "nowhere", code |-> 0]]
    /\ conn = [e \in Exports |-> "none"]

----------------------------------------------------------------------------
(* The exporter.  The definitions with a double underscore are deliberate    *)
(* mistakes, kept to show that the properties notice them.                   *)

At(e, pc) == call[e].pc = pc

Goes(e, pc) == call' = [call EXCEPT ![e].pc = pc]

(* The transport hands back a response; 0 stands for an error. *)
Responds(e, status) == call' = [call EXCEPT ![e].pc = "responded", ![e].status = status]

(* OtlpHttpRequest, as the exporter hands it to any transport. *)
Request(e) == [headers |-> MakeHeaders(config.headers), body |-> JsonBody(call[e].batch, config)]

(* The headers with which sendWithGalayHttp posts it. *)
SentHeaders(e) == RequestHeaders(Request(e).headers)

(* exportSpans of nothing succeeds without a request. *)
ExportNothing(e) ==
    /\ At(e, "idle")
    /\ call' = [call EXCEPT ![e].pc = "done", ![e].result = TRUE]
    /\ UNCHANGED <<spanVars, config, mutex, runtime, wire, conn>>

(* Spans reach an exporter as copies, after they have ended. *)
BeginExport(e, s, onScheduler) ==
    /\ At(e, "idle")
    /\ s \in Started /\ span[s].ended
    /\ call' = [call EXCEPT ![e].pc = "sending", ![e].batch = Append(Others, span[s]),
                            ![e].onScheduler = onScheduler]
    /\ UNCHANGED <<spanVars, config, mutex, runtime, wire, conn>>

(* makeUnavailableTransport *)
Unavailable(e) ==
    /\ At(e, "sending") /\ config.transport = "unavailable"
    /\ Responds(e, 0)
    /\ UNCHANGED <<spanVars, config, mutex, runtime, wire, conn>>

(* A transport of the program delivers the request and answers, ... *)
CustomAnswers(e, status) ==
    /\ At(e, "sending") /\ config.transport = "custom"
    /\ wire' = [wire EXCEPT ![e] = [at |-> "answered", code |-> status]]
    /\ Responds(e, status)
    /\ UNCHANGED <<spanVars, config, mutex, runtime, conn>>

(* ... or something throws, which the exporter turns into a failure: the     *)
(* transport, the making of the body, or, with the lock held, the creation   *)
(* of the runtime or spawn.  m_runtime is set before it is started.          *)
SendThrows(e) ==
    /\ At(e, "sending") \/ At(e, "locked")
    /\ call' = [call EXCEPT ![e].pc = "done", ![e].result = FALSE]
    /\ mutex' = IF mutex = e THEN None ELSE mutex
    /\ runtime' \in {runtime, runtime \/ At(e, "locked")}
    /\ UNCHANGED <<spanVars, config, wire, conn>>

(* Redirections count as success. *)
Finish__Redirections(e) ==
    /\ At(e, "responded")
    /\ call' = [call EXCEPT ![e].pc = "done",
                            ![e].result = call[e].status >= 200 /\ call[e].status <= 300]
    /\ mutex' = IF mutex = e THEN None ELSE mutex
    /\ UNCHANGED <<spanVars, config, runtime, wire, conn>>

(* The response is classified; the transport's lock is released before. *)
Finish(e) ==
    /\ At(e, "responded")
    /\ call' = [call EXCEPT ![e].pc = "done",
                            ![e].result = call[e].status >= 200 /\ call[e].status < 300]
    /\ mutex' = IF mutex = e THEN None ELSE mutex
    /\ UNCHANGED <<spanVars, config, runtime, wire, conn>>

----------------------------------------------------------------------------
(* GalayHttpTransportState::send *)

Rejected(e) == config.reject /\ call[e].onScheduler

Reject(e) ==
    /\ At(e, "sending") /\ config.transport = "galay" /\ Rejected(e)
    /\ Responds(e, 0)
    /\ UNCHANGED <<spanVars, config, mutex, runtime, wire, conn>>

Lock(e) ==
    /\ At(e, "sending") /\ config.transport = "galay" /\ ~Rejected(e)
    /\ mutex = None /\ mutex' = e
    /\ Goes(e, "locked")
    /\ UNCHANGED <<spanVars, config, runtime, wire, conn>>

(* ensureRuntime, spawn; join waits for the coroutine. *)
Spawn(e) ==
    /\ At(e, "locked")
    /\ runtime' = TRUE
    /\ Goes(e, "spawned")
    /\ UNCHANGED <<spanVars, config, mutex, wire, conn>>

(* sendWithGalayHttp: the endpoint has to be a URL, and not https, ... *)
ParseEndpoint(e) ==
    /\ At(e, "spawned")
    /\ IF config.endpoint = "http" THEN Goes(e, "connecting") ELSE Responds(e, 0)
    /\ UNCHANGED <<spanVars, config, mutex, runtime, wire, conn>>

(* ... connect within the timeout, ... *)
Connect(e) ==
    /\ At(e, "connecting")
    /\ Goes(e, "posting")
    /\ conn' = [conn EXCEPT ![e] = "open"]
    /\ wire' = [wire EXCEPT ![e].at = "sent"]
    /\ UNCHANGED <<spanVars, config, mutex, runtime>>

(* ... which may fail or run out, with the same effect, ... *)
ConnectFails(e) ==
    /\ At(e, "connecting")
    /\ Responds(e, 0)
    /\ UNCHANGED <<spanVars, config, mutex, runtime, wire, conn>>

(* ... post the request, which the server may receive late or never, ... *)
ServerReceives(e) ==
    /\ wire[e].at = "sent" /\ conn[e] = "open"
    /\ wire' = [wire EXCEPT ![e].at = "received"]
    /\ UNCHANGED <<spanVars, config, mutex, runtime, call, conn>>

(* ... wait for a whole answer ... *)
PostAnswered(e, status) ==
    /\ At(e, "posting") /\ wire[e].at = "received"
    /\ wire' = [wire EXCEPT ![e] = [at |-> "answered", code |-> status]]
    /\ call' = [call EXCEPT ![e].pc = "closing", ![e].status = status]
    /\ UNCHANGED <<spanVars, config, mutex, runtime, conn>>

(* post has no timeout: only an error ends the wait. *)
PostFails__NoTimeout(e) ==
    /\ At(e, "posting") /\ wire[e].at = "received"
    /\ call' = [call EXCEPT ![e].pc = "closing", ![e].status = 0]
    /\ UNCHANGED <<spanVars, config, mutex, runtime, wire, conn>>

(* The error path returns at once. *)
PostFails__LeavesOpen(e) ==
    /\ At(e, "posting")
    /\ Responds(e, 0)
    /\ UNCHANGED <<spanVars, config, mutex, runtime, wire, conn>>

(* ... or give up: an error, an incomplete answer or the timeout, ... *)
PostFails(e) ==
    /\ At(e, "posting")
    /\ call' = [call EXCEPT ![e].pc = "closing", ![e].status = 0]
    /\ UNCHANGED <<spanVars, config, mutex, runtime, wire, conn>>

(* ... and close the client, without a timeout. *)
CloseClient(e) ==
    /\ At(e, "closing")
    /\ Goes(e, "responded")
    /\ conn' = [conn EXCEPT ![e] = "closed"]
    /\ UNCHANGED <<spanVars, config, mutex, runtime, wire>>

(* An exception anywhere in the coroutine becomes a response with status 0;  *)
(* the client goes with the coroutine's frame.                               *)
CoroutineThrows(e) ==
    /\ call[e].pc \in {"spawned", "connecting", "posting", "closing"}
    /\ Responds(e, 0)
    /\ conn' = [conn EXCEPT ![e] = IF @ = "open" THEN "unwound" ELSE @]
    /\ UNCHANGED <<spanVars, config, mutex, runtime, wire>>

----------------------------------------------------------------------------
(* What the exporter and the timers do by themselves.  That the connection   *)
(* is made and that the server answers is not among it.                      *)
Progress(e) ==
    \/ Unavailable(e) \/ (\E status \in StatusCodes : CustomAnswers(e, status))
    \/ SendThrows(e) \/ Finish(e)
    \/ Reject(e) \/ Lock(e) \/ Spawn(e) \/ ParseEndpoint(e)
    \/ ConnectFails(e) \/ PostFails(e) \/ CloseClient(e)

ExportStep(e) ==
    \/ ExportNothing(e) \/ \E s \in Spans, sched \in BOOLEAN : BeginExport(e, s, sched)
    \/ Progress(e)
    \/ Connect(e) \/ ServerReceives(e)
    \/ \E status \in StatusCodes : PostAnswered(e, status)
    \/ CoroutineThrows(e)

(* The exporter works on copies, so that what becomes of the spans after the *)
(* first export does not matter to it and is left out.                       *)
SpanStep == (\A e \in Exports : At(e, "idle")) /\ SpanNext /\ UNCHANGED otlpVars

Next == SpanStep \/ \E e \in Exports : ExportStep(e)

Spec == Init /\ [][Next]_vars

(* Threads run, the timers of connect and post fire, close and a transport   *)
(* of the program come to an end.                                            *)
FairSpec == Spec /\ \A e \in Exports : WF_vars(Progress(e))

----------------------------------------------------------------------------
(* The properties. *)

(* A receiver reads from the body of a call's request the spans of that      *)
(* call, in order: names, states and messages with any characters, optional  *)
(* parts left out or not (buildOtlpJsonBody).                                *)
BodyFaithful(e) ==
    LET body == Request(e).body IN
    /\ [i \in DOMAIN body.spans |-> ReadSpan(body.spans[i])]
         = [i \in DOMAIN call[e].batch |-> Meaning(call[e].batch[i])]
    /\ ReadAttributes(Get(body, "resource", <<>>)) = Named(config.resource)
    /\ [f \in {"name", "version"} |-> ReadStringOf(body.scope, f)] = config.scope

(* What the program gave as content type, JSON if nothing. *)
ContentTypes(given) ==
    LET types == {h \in {given[i] : i \in DOMAIN given} : h.name = "content-type"}
    IN IF types = {} THEN {"application/json"} ELSE {h.value : h \in types}

(* Every transport gets all of the program's headers and a content type, its *)
(* own where it gave one (makeHeaders).                                      *)
HeadersFaithful(e) ==
    LET headers == Request(e).headers
        given == config.headers IN
    /\ \A i \in DOMAIN given : \E m \in DOMAIN headers : headers[m] = given[i]
    /\ {headers[m].value : m \in {k \in DOMAIN headers : headers[k].name = "content-type"}}
         = ContentTypes(given)

(* What galay-http posts keeps that content type and, of each header, the    *)
(* value given or a later one; a default stands in for a missing one only    *)
(* (sendWithGalayHttp).                                                      *)
SentFaithful(e) ==
    LET sent == SentHeaders(e)
        given == config.headers IN
    /\ sent.contentType \in ContentTypes(given)
    /\ \A n \in DefaultHeaders : <<n, "default">> \in sent.fields <=> ~HasHeader(given, n)
    /\ \A i \in DOMAIN given : given[i].name # "content-type" =>
          \E j \in i .. Len(given) : <<given[i].name, given[j].value>> \in sent.fields

(* What reaches a server or a transport of the program is what the program   *)
(* recorded and configured, for every call and every transport.              *)
RequestFaithful ==
    \A e \in Exports : wire[e].at # "nowhere" =>
        /\ BodyFaithful(e) /\ HeadersFaithful(e)
        /\ config.transport = "galay" => SentFaithful(e)

(* A success means that a server answered this very request with 2xx, or     *)
(* that there was nothing to send: no timeout, error, exception or late      *)
(* answer is taken for one (exportSpans).                                    *)
ResultHonest ==
    \A e \in Exports : call[e].result = TRUE /\ call[e].batch # <<>> =>
        wire[e].at = "answered" /\ wire[e].code \in 200 .. 299

(* When an export has returned no connection of it is left open, whichever   *)
(* way the request failed (sendWithGalayHttp).                               *)
ConnectionsClosed == \A e \in Exports : call[e].pc \in {"responded", "done"} => conn[e] # "open"

(* Every export returns, though the network may stay silent and the calls    *)
(* wait for each other's lock (exportSpans, send).                           *)
ExportsReturn == \A e \in Exports : At(e, "sending") ~> At(e, "done")

=============================================================================
