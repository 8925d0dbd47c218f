---------------------------- MODULE PartialRollout ----------------------------
(***************************************************************************)
(* Interrupting and resuming the generation of a sample (partial_rollout). *)
(* A synchronization lets AgentLoopManager.cancel tell the inference       *)
(* servers to refuse and to end requests, and the agent loop worker to     *)
(* stop its loops; resume takes both back.  The rollouts of a sample run   *)
(* as agent loops of the worker, each with at most one request at a        *)
(* server; all calls are messages and overtake each other.                 *)
(*                                                                         *)
(* A token is where it stands in its turn: the model goes on from what its *)
(* prompt ends with.  The last token of a turn makes the request end.      *)
(***************************************************************************)
EXTENDS Naturals, SequencesExt

CONSTANTS
  Rollouts,      \* the rollouts of the sample
  Servers,       \* FullyAsyncvLLMReplica
  ToolRollouts,  \* those of AsyncPartialToolAgentLoop; the others are single-turn
  Turns,         \* turns of a whole response; all but the last call a tool
  TurnLen,       \* tokens of a turn
  ResponseLength,\* response_length
  Unbuilt,       \* rollouts whose loop cannot be instantiated (see Resubmit)
  MaxSyncs,      \* bound of the model: synchronizations
  MaxRaises      \* bound of the model: loops that raise

ASSUME PartialAssumption ==
  /\ {"worker", "none"} \cap Servers = {}
  /\ ToolRollouts \subseteq Rollouts
  /\ Turns \in [Rollouts -> Nat \ {0}]
  /\ \A r \in Rollouts \ ToolRollouts : Turns[r] = 1
  /\ TurnLen \in [Rollouts -> Nat \ {0}]
  /\ ResponseLength \in Nat \ {0}
  /\ MaxSyncs \in Nat /\ MaxRaises \in Nat

VARIABLES
  \* the rollouter: its synchronization, and the task of the sample
  phase,
  todo,        \* whom cancel or resume has not reached yet
  syncs,
  sample,      \* "fresh", "running", "cancelled" (in cancel_queue), "finished",
               \* "failed"
  known,       \* current_param_version
  \* the agent loops
  stopped,     \* cancellation_event of the worker
  apc,         \* where the loop of a rollout is
  raises,      \* loops that have raised
  state,       \* AgentState of a tool loop
  ids,         \* the response so far: what follows the prompt in prompt_ids
  out,         \* the output of its last run: "none", "cancelled", "completed"
  start,       \* param_version_start
  \* the servers
  refusing,    \* paused
  weights,     \* version of the weights they generate with
  home,        \* server of the request of a rollout, once it is chosen
  req,         \* "none", "sent", "waiting" for tokens or the event, "replied"
  event,       \* cancel_event of the request: "absent", "clear", "set"
  toks,        \* req_output of the request, then the tokens in its reply
  ended,       \* the generation of the request is over
  cancelled    \* is_cancel in its reply

syncVars   == <<phase, todo, syncs, known>>
agentVars  == <<apc, raises, state, ids, out, start>>
serverVars == <<home, req, event, toks, ended, cancelled>>
vars == <<syncVars, sample, stopped, agentVars, refusing, weights, serverVars>>

Targets == Servers \cup {"worker"}

Init ==
  /\ phase = "run" /\ todo = {} /\ syncs = 0 /\ known = 0
  /\ sample = "fresh" /\ stopped = FALSE
  /\ apc = [r \in Rollouts |-> "idle"]
  /\ raises = 0
  /\ state = [r \in Rollouts |-> "pending"]
  /\ ids = [r \in Rollouts |-> <<>>]
  /\ out = [r \in Rollouts |-> "none"]
  /\ start = [r \in Rollouts |-> 0]
  /\ refusing = [s \in Servers |-> FALSE] /\ weights = 0
  /\ home = [r \in Rollouts |-> "none"]
  /\ req = [r \in Rollouts |-> "none"]
  /\ event = [r \in Rollouts |-> "absent"]
  /\ toks = [r \in Rollouts |-> <<>>]
  /\ ended = [r \in Rollouts |-> FALSE]
  /\ cancelled = [r \in Rollouts |-> FALSE]
-------------------------------------------------------------------------------
(***************************************************************************)
(* The rollouter.  pause holds the lock from Cancel to Gathered, resume    *)
(* from Resume to Resumed, so no sample is submitted then.  In between one *)
(* can be: the monitor may have cleared the pause (see FullyAsync).        *)
(***************************************************************************)
\* A task of the sample runs the loops of some rollouts, gives some of them
\* their param_version_start, and takes the outputs of the others as they are.
\* A loop that cannot be instantiated raises at once: at this commit all, for
\* want of the arguments dataset_cls and dataset_config.  The worker that takes
\* the sample has a server_manager, so a choice of servers, of its own.
Resubmit(running, stamped) ==
  /\ phase \in {"run", "weights", "update", "updated"}
  /\ sample \in {"fresh", "cancelled"}
  /\ sample' = "running"
  /\ apc' = [r \in Rollouts |-> IF r \notin running THEN "over"
                                ELSE IF r \in Unbuilt THEN "raised" ELSE "top"]
  /\ start' = [r \in Rollouts |-> IF r \in stamped THEN known ELSE start[r]]
  /\ home' = [r \in Rollouts |-> IF r \in running THEN "none" ELSE home[r]]
  /\ UNCHANGED <<syncVars, stopped, raises, state, ids, out, refusing, weights,
                 req, event, toks, ended, cancelled>>

With(outputs) == {r \in Rollouts : out[r] \in outputs}

\* Bug: complete rollouts are run again.
SubmitAll == Resubmit(Rollouts, With({"none"}))

\* Bug: an interrupted rollout takes the version of its last submission.
SubmitRestamps ==
  Resubmit(With({"none", "cancelled"}), With({"none", "cancelled"}))

\* _process_single_sample_streaming and _partial_run_agent_loop.
Submit == Resubmit(With({"none", "cancelled"}), With({"none"}))

\* generate_sequences_no_post: cancelled if any of its rollouts is.
SampleReturns ==
  /\ sample = "running"
  /\ \A r \in Rollouts : apc[r] = "over"
  /\ sample' = IF \E r \in Rollouts : out[r] = "cancelled" THEN "cancelled"
                                                           ELSE "finished"
  /\ apc' = [r \in Rollouts |-> "idle"]
  /\ UNCHANGED <<syncVars, stopped, raises, state, ids, out, start, refusing,
                 weights, serverVars>>

\* asyncio.gather raises what the first loop has raised, and with it the task;
\* the other loops go on, unattended.
SampleFails ==
  /\ sample = "running"
  /\ \E r \in Rollouts : apc[r] = "raised"
  /\ sample' = "failed"
  /\ UNCHANGED <<syncVars, stopped, agentVars, refusing, weights, serverVars>>

\* AgentLoopManager.cancel, from pause: tell everybody, wait for all replies.
Cancel ==
  /\ phase = "run" /\ syncs < MaxSyncs
  /\ phase' = "cancel" /\ todo' = Targets /\ syncs' = syncs + 1
  /\ UNCHANGED <<known, sample, stopped, agentVars, refusing, weights,
                 serverVars>>

\* pause: all active tasks have returned or raised.
Gathered ==
  /\ phase = "cancel" /\ todo = {}
  /\ sample # "running"
  /\ phase' = "weights"
  /\ UNCHANGED <<todo, syncs, known, sample, stopped, agentVars, refusing,
                 weights, serverVars>>

\* The new weights are in the servers.
LoadWeights ==
  /\ phase = "weights"
  /\ weights' = weights + 1
  /\ phase' = "update"
  /\ UNCHANGED <<todo, syncs, known, sample, stopped, agentVars, refusing,
                 serverVars>>

UpdateVersion ==
  /\ phase = "update"
  /\ known' = weights
  /\ phase' = "updated"
  /\ UNCHANGED <<todo, syncs, sample, stopped, agentVars, refusing, weights,
                 serverVars>>

Resume ==
  /\ phase = "updated"
  /\ phase' = "resume" /\ todo' = Targets
  /\ UNCHANGED <<syncs, known, sample, stopped, agentVars, refusing, weights,
                 serverVars>>

Resumed ==
  /\ phase = "resume" /\ todo = {}
  /\ phase' = "run"
  /\ UNCHANGED <<todo, syncs, known, sample, stopped, agentVars, refusing,
                 weights, serverVars>>

Rollouter ==
  \/ Submit \/ SampleReturns \/ SampleFails \/ Cancel \/ Gathered
  \/ LoadWeights \/ UpdateVersion \/ Resume \/ Resumed
-------------------------------------------------------------------------------
(***************************************************************************)
(* The message of cancel or resume reaches a server or the worker.         *)
(***************************************************************************)
Reached(t) == t \in todo /\ todo' = todo \ {t}

\* vLLMHttpServerForPartial.cancel: every request that waits here is told.
CancelServer(s) ==
  /\ phase = "cancel" /\ Reached(s)
  /\ refusing' = [refusing EXCEPT ![s] = TRUE]
  /\ event' = [r \in Rollouts |->
                 IF home[r] = s /\ event[r] = "clear" THEN "set" ELSE event[r]]
  /\ UNCHANGED <<phase, syncs, known, sample, stopped, agentVars, weights,
                 home, req, toks, ended, cancelled>>

\* Bug: the server goes on refusing.
ResumeServerInVain(s) ==
  /\ phase = "resume" /\ Reached(s)
  /\ UNCHANGED <<phase, syncs, known, sample, stopped, agentVars, refusing,
                 weights, serverVars>>

ResumeServer(s) ==
  /\ phase = "resume" /\ Reached(s)
  /\ refusing' = [refusing EXCEPT ![s] = FALSE]
  /\ UNCHANGED <<phase, syncs, known, sample, stopped, agentVars, weights,
                 serverVars>>

\* Bug: the event stays set after the synchronization.
WorkerStaysStopped ==
  /\ Reached("worker")
  /\ stopped' = TRUE
  /\ UNCHANGED <<phase, syncs, known, sample, agentVars, refusing, weights,
                 serverVars>>

\* cancel_agent_loops and resume_agent_loops.
TellWorker ==
  /\ Reached("worker")
  /\ stopped' = (phase = "cancel")
  /\ UNCHANGED <<phase, syncs, known, sample, agentVars, refusing, weights,
                 serverVars>>

Delivery ==
  \/ TellWorker
  \/ \E s \in Servers : CancelServer(s) \/ ResumeServer(s)
-------------------------------------------------------------------------------
(***************************************************************************)
(* A server and its inference engine.  A request waits for its last token  *)
(* or for cancel; the engine works with what it is told between any two    *)
(* steps of the server.                                                    *)
(***************************************************************************)
Truncated(s) == IF Len(s) > ResponseLength THEN SubSeq(s, 1, ResponseLength)
                                           ELSE s

\* The response of a rollout, with what its request has generated so far.
Response(r) == ids[r] \o toks[r]

G == INSTANCE Generation WITH
       resp <- [r \in Rollouts |-> Truncated(Response(r))],
       done <- [r \in Rollouts |-> out[r] = "completed"],
       version <- weights

Arrives(r, refused) ==
  /\ req[r] = "sent"
  /\ req' = [req EXCEPT ![r] = IF refused THEN "replied" ELSE "waiting"]
  /\ cancelled' = [cancelled EXCEPT ![r] = refused]
  /\ event' = [event EXCEPT ![r] = IF refused THEN @ ELSE "clear"]
  /\ UNCHANGED <<syncVars, sample, stopped, agentVars, refusing, weights,
                 home, toks, ended>>

\* Bug: a paused server takes requests.
ArriveAnyway(r) == Arrives(r, FALSE)

\* generate_for_partial, up to the wait.
Arrive(r) == Arrives(r, refusing[home[r]])

\* The engine: a token of the request.
Generate(r) ==
  /\ req[r] = "waiting" /\ ~ended[r]
  /\ LET t == G!Following(r, Response(r), weights) IN
       /\ toks' = [toks EXCEPT ![r] = Append(@, t)]
       /\ ended' = [ended EXCEPT ![r] = t.pos = TurnLen[r]]
  /\ UNCHANGED <<syncVars, sample, stopped, agentVars, refusing, weights,
                 home, req, event, cancelled>>

Answered(r, isCancel) ==
  /\ req[r] = "waiting" /\ (ended[r] \/ event[r] = "set")
  /\ req' = [req EXCEPT ![r] = "replied"]
  /\ cancelled' = [cancelled EXCEPT ![r] = isCancel]
  /\ event' = [event EXCEPT ![r] = IF toks[r] = <<>> THEN @ ELSE "absent"]
  /\ UNCHANGED <<syncVars, sample, stopped, agentVars, refusing, weights,
                 home, toks, ended>>

\* Bug: only a request without tokens is reported as cancelled.
WaitOverIfEmpty(r) == Answered(r, toks[r] = <<>>)

\* The rest of generate_for_partial: what finished first decides, the tokens
\* are returned in any case; without a token the entries are left behind.
WaitOver(r) == Answered(r, ~ended[r])

Serving(r) == Arrive(r) \/ Generate(r) \/ WaitOver(r)
-------------------------------------------------------------------------------
(***************************************************************************)
(* The agent loops.  The tool loop looks at stopped whenever it starts     *)
(* over, the single-turn loop, of one request, never.                      *)
(***************************************************************************)
Goes(r) == apc[r] = "top" /\ ~(r \in ToolRollouts /\ stopped)

\* A request_id stays with its server at one worker; the single-turn loop takes
\* a new one.
Request(r) ==
  /\ r \in ToolRollouts => state[r] = "generating"
  /\ apc' = [apc EXCEPT ![r] = "await"]
  /\ req' = [req EXCEPT ![r] = "sent"]
  /\ \E s \in Servers :
       /\ r \in ToolRollouts /\ home[r] # "none" => s = home[r]
       /\ home' = [home EXCEPT ![r] = s]
  /\ UNCHANGED <<syncVars, sample, stopped, raises, state, ids, out, start,
                 refusing, weights, event, toks, ended, cancelled>>

\* Bug: the tool loop sends its next request although it is stopped.
SendStopped(r) == apc[r] = "top" /\ Request(r)

Send(r) == Goes(r) /\ Request(r)

\* The loop ends with a complete response.
Completed(r, response) ==
  /\ ids' = [ids EXCEPT ![r] = Truncated(response)]
  /\ out' = [out EXCEPT ![r] = "completed"]
  /\ apc' = [apc EXCEPT ![r] = "over"]

ReplyTaken(r) ==
  /\ apc[r] = "await" /\ req[r] = "replied"
  /\ req' = [req EXCEPT ![r] = "none"]
  /\ toks' = [toks EXCEPT ![r] = <<>>]
  /\ ended' = [ended EXCEPT ![r] = FALSE]
  /\ cancelled' = [cancelled EXCEPT ![r] = FALSE]
  /\ UNCHANGED <<syncVars, sample, stopped, raises, start, refusing, weights,
                 home, event>>

Full(r) == Len(Response(r)) >= ResponseLength

Paused(r) ==
  /\ ids' = [ids EXCEPT ![r] = Response(r)]
  /\ out' = [out EXCEPT ![r] = "cancelled"]
  /\ apc' = [apc EXCEPT ![r] = "over"]

SingleTurnReply(r) ==
  /\ r \notin ToolRollouts /\ ReplyTaken(r)
  /\ \/ (~cancelled[r] \/ Full(r)) /\ Completed(r, Response(r))
     \/ cancelled[r] /\ ~Full(r) /\ Paused(r)
  /\ UNCHANGED state

\* _handle_generating_state_partial: the tool call, which is the whole of a
\* turn, is looked for in the tokens of this reply.
CallsTool(r) ==
  \E i, j \in DOMAIN toks[r] :
    toks[r][i].pos = 1 /\ toks[r][j].pos = TurnLen[r] /\ toks[r][j].turn < Turns[r]

ToolReply(r) ==
  /\ r \in ToolRollouts /\ ReplyTaken(r)
  /\ \/ /\ Full(r) \/ (~cancelled[r] /\ ~CallsTool(r))
        /\ Completed(r, Response(r))
        /\ UNCHANGED state
     \/ /\ ~Full(r)
        /\ \/ cancelled[r] /\ UNCHANGED state
           \/ /\ ~cancelled[r] /\ CallsTool(r)
              /\ state' = [state EXCEPT ![r] = "tools"]
        /\ ids' = [ids EXCEPT ![r] = Response(r)]
        /\ apc' = [apc EXCEPT ![r] = "top"]
        /\ UNCHANGED out

\* _handle_pending_state: the prompt.
Prepare(r) ==
  /\ r \in ToolRollouts /\ Goes(r) /\ state[r] = "pending"
  /\ state' = [state EXCEPT ![r] = "generating"]
  /\ UNCHANGED <<syncVars, sample, stopped, apc, raises, ids, out, start,
                 refusing, weights, serverVars>>

ToolsAnswer(r, hasRoom) ==
  /\ Goes(r) /\ state[r] = "tools"
  /\ \/ ~hasRoom /\ Completed(r, ids[r]) /\ UNCHANGED state
     \/ /\ hasRoom
        /\ ids' = [ids EXCEPT ![r] = Append(@, G!Following(r, @, weights))]
        /\ state' = [state EXCEPT ![r] = "generating"]
        /\ UNCHANGED <<apc, out>>
  /\ UNCHANGED <<syncVars, sample, stopped, raises, start, refusing, weights,
                 serverVars>>

\* _handle_processing_tools_state: the answer has to leave room for more.
CallTools(r) == ToolsAnswer(r, Len(ids[r]) + 1 < ResponseLength)

Stops(r) ==
  /\ r \in ToolRollouts /\ stopped /\ apc[r] = "top"
  /\ out' = [out EXCEPT ![r] = "cancelled"]
  /\ apc' = [apc EXCEPT ![r] = "over"]
  /\ UNCHANGED <<syncVars, sample, stopped, raises, start, refusing, weights,
                 serverVars>>

\* Bug: an interrupted tool loop starts from the beginning.
InterruptedRestarts(r) ==
  /\ Stops(r)
  /\ state' = [state EXCEPT ![r] = "pending"]
  /\ ids' = [ids EXCEPT ![r] = <<>>]

\* The loop returns with its data and state, to go on from there.
Interrupted(r) == Stops(r) /\ UNCHANGED <<state, ids>>

\* A loop raises: before a request, or at a reply (of a request that failed, or
\* in the work it makes), which nobody reads any more then.
Raise(r) ==
  /\ apc[r] = "top" \/ (apc[r] = "await" /\ req[r] = "replied")
  /\ raises < MaxRaises
  /\ raises' = raises + 1
  /\ apc' = [apc EXCEPT ![r] = "raised"]
  /\ UNCHANGED <<syncVars, sample, stopped, state, ids, out, start, refusing,
                 weights, serverVars>>

AgentLoop(r) ==
  \/ Send(r) \/ SingleTurnReply(r) \/ ToolReply(r)
  \/ Prepare(r) \/ CallTools(r) \/ Interrupted(r)
-------------------------------------------------------------------------------
Next ==
  \/ Rollouter \/ Delivery
  \/ \E r \in Rollouts : Serving(r) \/ AgentLoop(r) \/ Raise(r)

Spec == Init /\ [][Next]_vars

\* All but the trainer's decision to synchronize happens sooner or later: the
\* steps are tasks of event loops and messages that Ray delivers.  Nothing is
\* assumed of a loop that raises.
Fairness ==
  /\ WF_vars(Submit) /\ WF_vars(SampleReturns) /\ WF_vars(SampleFails)
  /\ WF_vars(Gathered) /\ WF_vars(LoadWeights) /\ WF_vars(UpdateVersion)
  /\ WF_vars(Resume) /\ WF_vars(Resumed)
  /\ WF_vars(TellWorker)
  /\ \A s \in Servers : WF_vars(CancelServer(s)) /\ WF_vars(ResumeServer(s))
  /\ \A r \in Rollouts : WF_vars(Serving(r)) /\ WF_vars(AgentLoop(r))

FairSpec == Spec /\ Fairness
-------------------------------------------------------------------------------
Token == [turn : Nat, pos : Nat, ver : Nat]

\* Every variable has its type; the response stays short of the limit until
\* it is complete.
TypeOK ==
  /\ phase \in {"run", "cancel", "weights", "update", "updated", "resume"}
  /\ todo \subseteq Targets /\ syncs \in 0..MaxSyncs
  /\ sample \in {"fresh", "running", "cancelled", "finished", "failed"}
  /\ known \in 0..weights /\ weights \in 0..syncs
  /\ stopped \in BOOLEAN
  /\ apc \in [Rollouts -> {"idle", "top", "await", "over", "raised"}]
  /\ raises \in 0..MaxRaises
  /\ state \in [Rollouts -> {"pending", "generating", "tools"}]
  /\ \A r \in Rollouts :
       /\ ids[r] \in Seq(Token) /\ toks[r] \in Seq(Token)
       /\ out[r] # "completed" => Len(ids[r]) < ResponseLength
  /\ out \in [Rollouts -> {"none", "cancelled", "completed"}]
  /\ start \in [Rollouts -> 0..weights]
  /\ refusing \in [Servers -> BOOLEAN]
  /\ home \in [Rollouts -> Servers \cup {"none"}]
  /\ req \in [Rollouts -> {"none", "sent", "waiting", "replied"}]
  /\ event \in [Rollouts -> {"absent", "clear", "set"}]
  /\ ended \in [Rollouts -> BOOLEAN] /\ cancelled \in [Rollouts -> BOOLEAN]

\* While the weights are overwritten, and until resume, no server works on a
\* request: neither one that cancel missed nor one that arrives late, although
\* samples can be submitted (clear_kv_cache and the transfer rely on it).  The
\* exception is a sample that failed: pause does not wait for its other loops,
\* and a request of theirs may be there still; it has been told to end.
QuietServers ==
  phase \in {"weights", "update", "updated"} =>
    \A r \in Rollouts :
      req[r] = "waiting" => sample = "failed" /\ event[r] = "set"

\* No token of a response is older than the param_version_start reported with
\* it, however often the rollout was interrupted: the staleness the trainer
\* computes from it is never too small.
StartCovers ==
  \A r \in Rollouts : \A i \in DOMAIN Response(r) :
    start[r] <= Response(r)[i].ver

\* A complete response ends where the model or response_length ends it.
WholeResponse(r) ==
  out[r] = "completed" =>
    \/ Len(ids[r]) + 1 >= ResponseLength
    \/ Last(ids[r]).turn = Turns[r] /\ Last(ids[r]).pos = TurnLen[r]

\* So it is with the responses of the single-turn loop, not where a
\* synchronization came in between: neither the cancellation that races the last
\* token nor the budget left for the continuation cuts or prolongs one.
WholeSingle == \A r \in Rollouts \ ToolRollouts : WholeResponse(r)

\* Interruptions are invisible in the response: no token is lost, repeated or
\* generated without those before it, and a complete response is not run again.
Uninterrupted == G!Spec

\* pause returns: cancel ends every request and every loop, those whose
\* messages overtook it included, and a loop that raises ends the task.
CancelEnds == phase = "cancel" ~> phase = "weights"

\* An interrupted sample is finished in the end, however often it is interrupted,
\* unless a loop of it raises, and then it fails: none is interrupted for ever or
\* waits for a loop that is gone.
Finishes == <>(sample \in {"finished", "failed"})
===============================================================================
