----------------------------- MODULE PartialProofs -----------------------------
(***************************************************************************)
(* Interrupting a sample leaves no server at work (but for requests that   *)
(* outlive a failed sample and have been told to end), its reported start  *)
(* covers its tokens, its responses are generated as if it was never       *)
(* interrupted (Uninterrupted), and those of a single turn are whole       *)
(* (WholeSingle), for any number of rollouts, servers and turns.           *)
(***************************************************************************)
EXTENDS PartialRollout, TLAPS

USE PartialAssumption

\* A loop has a request only while it awaits it, or left its reply unread when it
\* raised, and the sample returns only when its loops are over: no sample in a
\* task, or that failed in one, no request.
LoopsOwnRequests ==
  /\ sample \notin {"running", "failed"} => \A r \in Rollouts : apc[r] = "idle"
  /\ \A r \in Rollouts :
       req[r] # "none" => apc[r] = "await" \/ (apc[r] = "raised" /\ req[r] = "replied")
  /\ \A r \in Rollouts : req[r] # "none" => home[r] \in Servers

\* A server that cancel has reached refuses, and all do until resume.
Refusals ==
  /\ phase = "cancel" => \A s \in Servers : s \in todo \/ refusing[s]
  /\ phase \in {"weights", "update", "updated"} => \A s \in Servers : refusing[s]

\* A request that waits has its event, and cancel has set it at a server that
\* refuses: cancel tells those that are there, and none comes in any more.
Told ==
  \A r \in Rollouts : req[r] = "waiting" =>
    /\ event[r] \in {"clear", "set"}
    /\ refusing[home[r]] => event[r] = "set"

\* The types QuietInv relies on.
QuietTypes ==
  /\ apc \in [Rollouts -> {"idle", "top", "await", "over", "raised"}]
  /\ req \in [Rollouts -> {"none", "sent", "waiting", "replied"}]
  /\ home \in [Rollouts -> Servers \cup {"none"}]
  /\ refusing \in [Servers -> BOOLEAN]
  /\ event \in [Rollouts -> {"absent", "clear", "set"}]

QuietInv == QuietTypes /\ LoopsOwnRequests /\ Refusals /\ Told /\ QuietServers
-------------------------------------------------------------------------------
LEMMA QuietInit == Init => QuietInv
  BY DEF Init, QuietInv, QuietTypes, LoopsOwnRequests, Refusals, Told,
         QuietServers

LEMMA RollouterKeepsQuiet ==
  ASSUME QuietInv, Rollouter
  PROVE  QuietInv'
<1> USE DEF QuietInv, QuietTypes, LoopsOwnRequests, Refusals, Told,
            QuietServers, syncVars, agentVars, serverVars, Targets
<1>1. CASE Submit
  BY <1>1 DEF Submit, Resubmit
<1>2. CASE SampleReturns \/ SampleFails
  BY <1>2 DEF SampleReturns, SampleFails
<1>3. CASE Cancel
  BY <1>3 DEF Cancel
<1>4. CASE Gathered
  BY <1>4 DEF Gathered
<1>5. CASE LoadWeights \/ UpdateVersion
  BY <1>5 DEF LoadWeights, UpdateVersion
<1>6. CASE Resume \/ Resumed
  BY <1>6 DEF Resume, Resumed
<1> QED
  BY <1>1, <1>2, <1>3, <1>4, <1>5, <1>6 DEF Rollouter

LEMMA DeliveryKeepsQuiet ==
  ASSUME QuietInv, Delivery
  PROVE  QuietInv'
<1> USE DEF QuietInv, QuietTypes, LoopsOwnRequests, Refusals, Told,
            QuietServers, syncVars, agentVars, serverVars, Reached
<1>1. CASE TellWorker
  BY <1>1 DEF TellWorker
<1>2. ASSUME NEW s \in Servers, CancelServer(s)
      PROVE  QuietInv'
  BY <1>2 DEF CancelServer
<1>3. ASSUME NEW s \in Servers, ResumeServer(s)
      PROVE  QuietInv'
  BY <1>3 DEF ResumeServer
<1> QED
  BY <1>1, <1>2, <1>3 DEF Delivery

\* A server refuses a request while it must not work on one.
LEMMA ServingKeepsQuiet ==
  ASSUME QuietInv, NEW r \in Rollouts, Serving(r)
  PROVE  QuietInv'
<1> USE DEF QuietInv, QuietTypes, LoopsOwnRequests, Refusals, Told,
            QuietServers, syncVars, agentVars
<1>1. CASE Arrive(r)
  <2>1. home[r] \in Servers
    BY <1>1 DEF Arrive, Arrives
  <2>2. phase \in {"weights", "update", "updated"} => req'[r] = "replied"
    BY <1>1, <2>1 DEF Arrive, Arrives
  <2> QED
    BY <1>1, <2>2 DEF Arrive, Arrives
<1>2. CASE Generate(r)
  BY <1>2 DEF Generate
<1>3. CASE WaitOver(r)
  BY <1>3 DEF WaitOver, Answered
<1> QED
  BY <1>1, <1>2, <1>3 DEF Serving

\* A loop that is at work belongs to a sample that has a task.
LEMMA LoopKeepsQuiet ==
  ASSUME QuietInv, NEW r \in Rollouts, AgentLoop(r)
  PROVE  QuietInv'
<1> USE DEF QuietInv, QuietTypes, LoopsOwnRequests, Refusals, Told,
            QuietServers, syncVars, serverVars
<1>1. CASE Send(r)
  BY <1>1 DEF Send, Request, Goes
<1>2. ASSUME ReplyTaken(r),
             \/ apc' = [apc EXCEPT ![r] = "top"]
             \/ apc' = [apc EXCEPT ![r] = "over"]
      PROVE  QuietInv'
  <2>1. /\ apc[r] = "await" /\ sample \in {"running", "failed"}
        /\ UNCHANGED <<phase, todo, sample, home, refusing, event>>
    BY <1>2 DEF ReplyTaken
  <2>2. /\ \A q \in Rollouts \ {r} : apc'[q] = apc[q] /\ req'[q] = req[q]
        /\ req'[r] = "none"
    BY <1>2 DEF ReplyTaken
  <2>3. QuietTypes'
    <3>1. apc' \in [Rollouts -> {"idle", "top", "await", "over", "raised"}]
      BY ONLY <1>2, QuietTypes DEF QuietTypes
    <3>2. req' \in [Rollouts -> {"none", "sent", "waiting", "replied"}]
      BY ONLY <1>2, QuietTypes DEF QuietTypes, ReplyTaken
    <3> QED
      BY <2>1, <3>1, <3>2
  <2>4. (LoopsOwnRequests /\ Refusals)'
    BY <2>1, <2>2
  <2>5. (Told /\ QuietServers)'
    BY <2>1, <2>2
  <2> QED
    BY <2>3, <2>4, <2>5
<1>3. CASE SingleTurnReply(r) \/ ToolReply(r)
  BY <1>2, <1>3 DEF SingleTurnReply, ToolReply, Completed, Paused
<1>4. CASE Prepare(r)
  BY <1>4 DEF Prepare, Goes
<1>5. CASE CallTools(r)
  <2>1. /\ apc[r] = "top" /\ UNCHANGED <<syncVars, sample, refusing, serverVars>>
        /\ apc' = apc \/ apc' = [apc EXCEPT ![r] = "over"]
    BY <1>5 DEF CallTools, ToolsAnswer, Goes, Completed
  <2> QED
    BY <2>1
<1>6. CASE Interrupted(r)
  BY <1>6 DEF Interrupted, Stops
<1> QED
  BY <1>1, <1>2, <1>3, <1>4, <1>5, <1>6 DEF AgentLoop

\* A loop that raises has no request, or has its reply.
LEMMA RaiseKeepsQuiet ==
  ASSUME QuietInv, NEW r \in Rollouts, Raise(r)
  PROVE  QuietInv'
  BY DEF QuietInv, QuietTypes, LoopsOwnRequests, Refusals, Told, QuietServers,
         syncVars, serverVars, Raise

LEMMA QuietStep == QuietInv /\ [Next]_vars => QuietInv'
<1> SUFFICES ASSUME QuietInv, [Next]_vars
             PROVE  QuietInv'
  OBVIOUS
<1>1. CASE UNCHANGED vars
  BY <1>1 DEF vars, syncVars, agentVars, serverVars, QuietInv, QuietTypes,
              LoopsOwnRequests, Refusals, Told, QuietServers
<1> QED
  BY <1>1, RollouterKeepsQuiet, DeliveryKeepsQuiet, ServingKeepsQuiet,
     LoopKeepsQuiet, RaiseKeepsQuiet DEF Next

\* While weights are overwritten no server has a request but those of loops that
\* outlived the task of a sample (SampleFails), and these have been told to end:
\* the messages of cancel and the requests may arrive in any order, and loops
\* raise at any time.
THEOREM ServersStayQuiet == Spec => []QuietServers
<1>1. QuietInv => QuietServers
  BY DEF QuietInv
<1> QED
  BY <1>1, QuietInit, QuietStep, PTL DEF Spec
-------------------------------------------------------------------------------
VersionTypes ==
  /\ known \in Nat /\ weights \in Nat /\ known <= weights
  /\ start \in [Rollouts -> Nat]
  /\ out \in [Rollouts -> {"none", "cancelled", "completed"}]
  /\ ids \in [Rollouts -> Seq(Token)] /\ toks \in [Rollouts -> Seq(Token)]

\* No token of sequence s is older than v.
NotOlder(s, v) == \A i \in DOMAIN s : v <= s[i].ver

\* Between its start and the weights in use lie the tokens of a rollout.
Covered ==
  \A r \in Rollouts : /\ start[r] <= weights
                      /\ NotOlder(ids[r], start[r])
                      /\ NotOlder(toks[r], start[r])

\* A rollout that never ran to an output, and is not running, has no response,
\* and there are tokens of a request only while it is worked on.
NothingYet ==
  /\ \A r \in Rollouts : apc[r] = "over" => out[r] # "none"
  /\ \A r \in Rollouts : apc[r] = "idle" /\ out[r] = "none" => ids[r] = <<>>
  /\ \A r \in Rollouts : req[r] \in {"none", "sent"} => toks[r] = <<>>

StartInv == QuietInv /\ VersionTypes /\ Covered /\ NothingYet
-------------------------------------------------------------------------------
\* The next token of a response is a token with the version given.
LEMMA FollowingToken ==
  ASSUME NEW r \in Rollouts, NEW p \in Seq(Token), NEW v \in Nat
  PROVE  /\ G!Following(r, p, v) \in Token
         /\ G!Following(r, p, v).ver = v
<1>1. CASE p = <<>>
  BY <1>1 DEF G!Following, Token
<1>2. CASE p # <<>>
  <2>1. p[Len(p)] \in Token
    BY <1>2
  <2>2. p[Len(p)].turn \in Nat /\ p[Len(p)].pos \in Nat
    BY <2>1 DEF Token
  <2> QED
    BY <1>2, <2>2 DEF G!Following, G!Last, Token
<1> QED
  BY <1>1, <1>2

\* Concatenation and truncation keep tokens, and how old they are.
LEMMA NotOlderKept ==
  ASSUME NEW s \in Seq(Token), NEW t \in Seq(Token), NEW v \in Nat,
         NotOlder(s, v), NotOlder(t, v)
  PROVE  /\ s \o t \in Seq(Token) /\ NotOlder(s \o t, v)
         /\ Truncated(s) \in Seq(Token) /\ NotOlder(Truncated(s), v)
<1>1. s \o t \in Seq(Token) /\ NotOlder(s \o t, v)
  BY DEF NotOlder
<1>2. Truncated(s) \in Seq(Token) /\ NotOlder(Truncated(s), v)
  BY DEF NotOlder, Truncated
<1> QED
  BY <1>1, <1>2

\* A token made with the weights in use is appended to a response.
LEMMA AppendNotOlder ==
  ASSUME NEW s \in Seq(Token), NEW t \in Token, NEW v \in Nat,
         NotOlder(s, v), v <= t.ver
  PROVE  Append(s, t) \in Seq(Token) /\ NotOlder(Append(s, t), v)
  BY DEF NotOlder

LEMMA StartInit == Init => StartInv
<1> SUFFICES ASSUME Init
             PROVE  StartInv
  OBVIOUS
<1>1. QuietInv
  BY QuietInit
<1>2. VersionTypes /\ NothingYet
  BY DEF Init, VersionTypes, NothingYet
<1>3. Covered
  BY DEF Init, Covered, NotOlder
<1> QED
  BY <1>1, <1>2, <1>3 DEF StartInv

LEMMA RollouterKeepsStart ==
  ASSUME StartInv, QuietInv', Rollouter
  PROVE  StartInv'
<1> USE DEF StartInv, VersionTypes, Covered, NothingYet, syncVars, agentVars,
            serverVars
<1>1. CASE Submit
  <2>1. \A r \in Rollouts :
          start'[r] # start[r] => /\ start'[r] = known
                                  /\ ids[r] = <<>> /\ toks[r] = <<>>
    BY <1>1 DEF Submit, Resubmit, With, QuietInv, LoopsOwnRequests
  <2>2. Covered'
    BY <1>1, <2>1 DEF Submit, Resubmit, NotOlder
  <2> QED
    BY <1>1, <2>2 DEF Submit, Resubmit, With
<1>2. CASE SampleReturns \/ SampleFails
  BY <1>2 DEF SampleReturns, SampleFails
<1>3. CASE Cancel \/ Gathered \/ Resume \/ Resumed
  BY <1>3 DEF Cancel, Gathered, Resume, Resumed
<1>4. CASE LoadWeights \/ UpdateVersion
  BY <1>4 DEF LoadWeights, UpdateVersion
<1> QED
  BY <1>1, <1>2, <1>3, <1>4 DEF Rollouter

LEMMA DeliveryKeepsStart ==
  ASSUME StartInv, QuietInv', Delivery
  PROVE  StartInv'
  BY DEF StartInv, VersionTypes, Covered, NothingYet, Delivery, TellWorker,
         CancelServer, ResumeServer, agentVars, serverVars

LEMMA ServingKeepsStart ==
  ASSUME StartInv, QuietInv', NEW r \in Rollouts, Serving(r)
  PROVE  StartInv'
<1> USE DEF StartInv, VersionTypes, Covered, NothingYet, syncVars, agentVars
<1>1. CASE Arrive(r)
  BY <1>1 DEF Arrive, Arrives
<1>2. CASE Generate(r)
  <2> DEFINE t == G!Following(r, Response(r), weights)
  <2>1. toks' = [toks EXCEPT ![r] = Append(@, t)]
    BY <1>2 DEF Generate
  <2>2. Response(r) \in Seq(Token)
    BY DEF Response
  <2>3. t \in Token /\ t.ver = weights
    BY <2>2, FollowingToken
  <2> HIDE DEF t
  <2>4. /\ Append(toks[r], t) \in Seq(Token)
        /\ NotOlder(Append(toks[r], t), start[r])
    BY <2>3, AppendNotOlder
  <2>5. toks' \in [Rollouts -> Seq(Token)]
    BY <2>1, <2>4
  <2>6. \A q \in Rollouts : NotOlder(toks'[q], start[q])
    BY <2>1, <2>4
  <2> QED
    BY <1>2, <2>1, <2>5, <2>6 DEF Generate
<1>3. CASE WaitOver(r)
  BY <1>3 DEF WaitOver, Answered, QuietInv, QuietTypes
<1> QED
  BY <1>1, <1>2, <1>3 DEF Serving

\* The response of a rollout, kept whole or truncated, is covered.
LEMMA ResponseCovered ==
  ASSUME StartInv, NEW r \in Rollouts
  PROVE  /\ Response(r) \in Seq(Token) /\ NotOlder(Response(r), start[r])
         /\ Truncated(Response(r)) \in Seq(Token)
         /\ NotOlder(Truncated(Response(r)), start[r])
<1>1. Response(r) \in Seq(Token) /\ NotOlder(Response(r), start[r])
  BY NotOlderKept DEF Response, StartInv, VersionTypes, Covered
<1> QED
  BY <1>1, NotOlderKept DEF StartInv, VersionTypes, Covered

\* What a reply, an answer of the tool or a truncation makes of a response is
\* covered if the new response is.
LEMMA ReplacedStart ==
  ASSUME StartInv, NEW r \in Rollouts, NEW s \in Seq(Token),
         NotOlder(s, start[r]), ids' = [ids EXCEPT ![r] = s],
         UNCHANGED <<known, weights, start>>,
         \/ toks' = toks
         \/ toks' = [toks EXCEPT ![r] = <<>>],
         out' \in [Rollouts -> {"none", "cancelled", "completed"}]
  PROVE  VersionTypes' /\ Covered'
<1> USE DEF StartInv, VersionTypes, Covered
<1>1. ids' \in [Rollouts -> Seq(Token)] /\ toks' \in [Rollouts -> Seq(Token)]
  <2>1. <<>> \in Seq(Token)
    OBVIOUS
  <2> QED
    BY <2>1
<1>2. \A q \in Rollouts : NotOlder(ids'[q], start[q])
  OBVIOUS
<1>3. \A q \in Rollouts : NotOlder(toks'[q], start[q])
  <2>1. \A q \in Rollouts : toks'[q] = toks[q] \/ toks'[q] = <<>>
    OBVIOUS
  <2>2. \A v : NotOlder(<<>>, v)
    BY DEF NotOlder
  <2> QED
    BY <2>1, <2>2
<1> QED
  BY <1>1, <1>2, <1>3

LEMMA LoopKeepsStart ==
  ASSUME StartInv, QuietInv', NEW r \in Rollouts, AgentLoop(r)
  PROVE  StartInv'
<1>1. CASE Send(r)
  <2>1. VersionTypes' /\ Covered'
    BY <1>1 DEF StartInv, VersionTypes, Covered, Send, Request, syncVars
  <2>2. /\ \A q \in Rollouts : apc'[q] = IF q = r THEN "await" ELSE apc[q]
        /\ \A q \in Rollouts : req'[q] = IF q = r THEN "sent" ELSE req[q]
    BY <1>1 DEF Send, Request, StartInv, QuietInv, QuietTypes
  <2>3. apc[r] = "top"
    BY <1>1 DEF Send, Goes
  <2>4. toks[r] = <<>>
    BY <2>3 DEF StartInv, NothingYet, QuietInv, LoopsOwnRequests
  <2>5. NothingYet'
    BY <1>1, <2>2, <2>4 DEF Send, Request, NothingYet, StartInv
  <2> QED
    BY <2>1, <2>5 DEF StartInv
<1>2. ASSUME ReplyTaken(r),
             \/ ids' = [ids EXCEPT ![r] = Response(r)]
             \/ ids' = [ids EXCEPT ![r] = Truncated(Response(r))],
             out' \in [Rollouts -> {"none", "cancelled", "completed"}],
             \/ apc' = [apc EXCEPT ![r] = "top"]
             \/ apc' = [apc EXCEPT ![r] = "over"] /\ out'[r] # "none",
             \A q \in Rollouts \ {r} : out'[q] = out[q]
      PROVE  StartInv'
  <2>1. VersionTypes' /\ Covered'
    BY <1>2, ResponseCovered, ReplacedStart DEF ReplyTaken, syncVars
  <2>2. \A q \in Rollouts \ {r} :
          /\ apc'[q] = apc[q] /\ ids'[q] = ids[q]
          /\ req'[q] = req[q] /\ toks'[q] = toks[q]
    BY <1>2 DEF ReplyTaken, StartInv, QuietInv, QuietTypes, VersionTypes
  <2>3. /\ apc'[r] # "idle" /\ (apc'[r] = "over" => out'[r] # "none")
        /\ toks'[r] = <<>>
    BY <1>2 DEF ReplyTaken, StartInv, QuietInv, QuietTypes, VersionTypes
  <2>4. NothingYet'
    BY <1>2, <2>2, <2>3 DEF NothingYet, StartInv
  <2> QED
    BY <2>1, <2>4 DEF StartInv
<1>3. CASE SingleTurnReply(r)
  BY <1>2, <1>3 DEF SingleTurnReply, Completed, Paused, StartInv, VersionTypes
<1>4. CASE ToolReply(r)
  BY <1>2, <1>4 DEF ToolReply, Completed, StartInv, VersionTypes
<1>5. CASE Prepare(r)
  BY <1>5 DEF StartInv, VersionTypes, Covered, NothingYet, Prepare, syncVars,
              serverVars
<1>6. CASE CallTools(r)
  <2> DEFINE t == G!Following(r, ids[r], weights)
  <2>1. /\ t \in Token /\ t.ver = weights
        /\ ids[r] \in Seq(Token) /\ NotOlder(ids[r], start[r])
        /\ start[r] \in Nat
    BY FollowingToken DEF StartInv, VersionTypes, Covered
  <2>2. \/ ids' = [ids EXCEPT ![r] = Truncated(ids[r])]
        \/ ids' = [ids EXCEPT ![r] = Append(ids[r], t)]
    BY <1>6 DEF CallTools, ToolsAnswer, Completed
  <2> HIDE DEF t
  <2>3. /\ Append(ids[r], t) \in Seq(Token)
        /\ NotOlder(Append(ids[r], t), start[r])
    BY <2>1, AppendNotOlder DEF StartInv, Covered
  <2>4. /\ Truncated(ids[r]) \in Seq(Token)
        /\ NotOlder(Truncated(ids[r]), start[r])
    BY <2>1, NotOlderKept
  <2>5. out' \in [Rollouts -> {"none", "cancelled", "completed"}]
    BY <1>6 DEF CallTools, ToolsAnswer, Completed, StartInv, VersionTypes
  <2>6. VersionTypes' /\ Covered'
    BY <1>6, <2>2, <2>3, <2>4, <2>5, ReplacedStart
    DEF CallTools, ToolsAnswer, syncVars, serverVars
  <2>7. \A q \in Rollouts \ {r} :
          apc'[q] = apc[q] /\ ids'[q] = ids[q] /\ out'[q] = out[q]
    BY <1>6 DEF CallTools, ToolsAnswer, Completed, StartInv, QuietInv,
                QuietTypes, VersionTypes
  <2>8. apc'[r] # "idle" /\ (apc'[r] = "over" => out'[r] # "none")
    BY <1>6 DEF CallTools, ToolsAnswer, Completed, Goes, StartInv, QuietInv,
                QuietTypes, VersionTypes
  <2>9. NothingYet'
    BY <1>6, <2>7, <2>8 DEF CallTools, ToolsAnswer, NothingYet, StartInv,
                            serverVars
  <2> QED
    BY <2>6, <2>9 DEF StartInv
<1>7. CASE Interrupted(r)
  BY <1>7 DEF StartInv, VersionTypes, Covered, NothingYet, Interrupted, Stops,
              syncVars, serverVars, QuietInv, QuietTypes
<1> QED
  BY <1>1, <1>3, <1>4, <1>5, <1>6, <1>7 DEF AgentLoop

\* Raising leaves tokens, outputs and versions alone.
LEMMA RaiseKeepsStart ==
  ASSUME StartInv, QuietInv', NEW r \in Rollouts, Raise(r)
  PROVE  StartInv'
  BY DEF StartInv, VersionTypes, Covered, NothingYet, Raise, QuietInv, QuietTypes,
         syncVars, serverVars

LEMMA StartStep == StartInv /\ [Next]_vars => StartInv'
<1> SUFFICES ASSUME StartInv, [Next]_vars
             PROVE  StartInv'
  OBVIOUS
<1>1. QuietInv'
  BY QuietStep DEF StartInv
<1>2. CASE UNCHANGED vars
  BY <1>1, <1>2 DEF vars, syncVars, agentVars, serverVars, StartInv,
                    VersionTypes, Covered, NothingYet
<1> QED
  BY <1>1, <1>2, RollouterKeepsStart, DeliveryKeepsStart, ServingKeepsStart,
     LoopKeepsStart, RaiseKeepsStart DEF Next

\* The param_version_start of a rollout covers every token of its response,
\* over any number of interruptions.
THEOREM StartsCoverTokens == Spec => []StartCovers
<1>1. StartInv => StartCovers
  BY ResponseCovered DEF StartCovers, NotOlder
<1> QED
  BY <1>1, StartInit, StartStep, PTL DEF Spec
-------------------------------------------------------------------------------
\* A complete rollout is not run again, and its loop raises no more.
CompleteRests ==
  \A r \in Rollouts : out[r] = "completed" => apc[r] \in {"over", "idle"}

ResumeInv == StartInv /\ CompleteRests

LEMMA ResumeInit == Init => ResumeInv
  BY StartInit DEF Init, ResumeInv, CompleteRests

LEMMA RestsStep ==
  ASSUME StartInv, CompleteRests, [Next]_vars
  PROVE  CompleteRests'
<1> USE DEF CompleteRests, StartInv, QuietInv, QuietTypes, VersionTypes,
            syncVars, agentVars, serverVars
<1>1. CASE Submit
  BY <1>1 DEF Submit, Resubmit, With
<1>2. CASE SampleReturns \/ SampleFails
  BY <1>2 DEF SampleReturns, SampleFails
<1>3. CASE Delivery \/ UNCHANGED vars
  BY <1>3 DEF Delivery, TellWorker, CancelServer, ResumeServer, vars
<1>4. ASSUME NEW r \in Rollouts, Serving(r)
      PROVE  CompleteRests'
  BY <1>4 DEF Serving, Arrive, Arrives, Generate, WaitOver, Answered
<1>5. ASSUME NEW r \in Rollouts, AgentLoop(r)
      PROVE  CompleteRests'
  <2>1. CASE Send(r) \/ Prepare(r) \/ Interrupted(r)
    BY <2>1 DEF Send, Request, Prepare, Interrupted, Stops, Goes
  <2>2. CASE SingleTurnReply(r)
    <3>1. Completed(r, Response(r)) \/ Paused(r)
      BY <2>2 DEF SingleTurnReply
    <3>2. CASE Completed(r, Response(r))
      BY <3>2 DEF Completed
    <3>3. CASE Paused(r)
      BY <3>3 DEF Paused
    <3> QED
      BY <3>1, <3>2, <3>3
  <2>3. CASE ToolReply(r)
    BY <2>3 DEF ToolReply, ReplyTaken, Completed
  <2>4. CASE CallTools(r)
    <3>1. /\ apc[r] = "top"
          /\ UNCHANGED <<apc, out>> \/ Completed(r, ids[r])
      BY <2>4 DEF CallTools, ToolsAnswer, Goes
    <3> QED
      BY <3>1 DEF Completed
  <2> QED
    BY <1>5, <2>1, <2>2, <2>3, <2>4 DEF AgentLoop
<1>6. CASE Cancel \/ Gathered \/ LoadWeights \/ UpdateVersion \/ Resume \/ Resumed
  BY <1>6 DEF Cancel, Gathered, LoadWeights, UpdateVersion, Resume, Resumed
<1>7. ASSUME NEW r \in Rollouts, Raise(r)
      PROVE  CompleteRests'
  BY <1>7 DEF Raise
<1> HIDE DEF CompleteRests, StartInv, QuietInv, QuietTypes, VersionTypes,
             syncVars, agentVars, serverVars
<1> QED
  BY <1>1, <1>2, <1>3, <1>4, <1>5, <1>6, <1>7 DEF Next, Rollouter

\* Truncation is idempotent, takes a token only if there is room for it, and
\* an empty reply adds nothing.
LEMMA TruncatedToken ==
  ASSUME NEW s \in Seq(Token), NEW t \in Token
  PROVE  /\ s \o <<>> = s
         /\ Truncated(Truncated(s)) = Truncated(s)
         /\ Len(s) < ResponseLength =>
              /\ Truncated(s) = s
              /\ Truncated(Append(s, t)) = Append(s, t)
         /\ Len(s) >= ResponseLength => Truncated(Append(s, t)) = Truncated(s)
<1>1. s \o <<>> = s
  OBVIOUS
<1>2. Truncated(Truncated(s)) = Truncated(s)
  BY DEF Truncated
<1>3. ASSUME Len(s) < ResponseLength
      PROVE  Truncated(s) = s /\ Truncated(Append(s, t)) = Append(s, t)
  BY <1>3 DEF Truncated
<1>4. ASSUME Len(s) >= ResponseLength
      PROVE  Truncated(Append(s, t)) = Truncated(s)
  <2>1. SubSeq(Append(s, t), 1, ResponseLength) = SubSeq(s, 1, ResponseLength)
    BY <1>4
  <2>2. Truncated(s) = SubSeq(s, 1, ResponseLength)
    <3>1. CASE Len(s) = ResponseLength
      <4>1. SubSeq(s, 1, ResponseLength) = s
        BY <3>1
      <4> QED
        BY <3>1, <4>1 DEF Truncated
    <3> QED
      BY <1>4, <3>1 DEF Truncated
  <2>3. Len(Append(s, t)) > ResponseLength
    BY <1>4
  <2> QED
    BY <2>1, <2>2, <2>3 DEF Truncated
<1> QED
  BY <1>1, <1>2, <1>3, <1>4

\* A token generated extends the response read so far.
LEMMA ConcatAppend ==
  ASSUME NEW s \in Seq(Token), NEW u \in Seq(Token), NEW t \in Token
  PROVE  s \o Append(u, t) = Append(s \o u, t)
  OBVIOUS

\* The variables of Generation under the mapping.
Mapped == <<[r \in Rollouts |-> Truncated(Response(r))],
            [r \in Rollouts |-> out[r] = "completed"], weights>>

\* One more token of a response that is not complete is G!Extend.
LEMMA Extends ==
  ASSUME NEW r \in Rollouts, out[r] # "completed",
         UNCHANGED <<weights, out>>,
         Truncated(Response(r))' =
           Append(Truncated(Response(r)),
                  G!Following(r, Truncated(Response(r)), weights)),
         \A q \in Rollouts \ {r} : Response(q)' = Response(q)
  PROVE  G!Extend(r)
<1>1. \A q \in Rollouts \ {r} : Truncated(Response(q))' = Truncated(Response(q))
  BY DEF Truncated
<1> QED
  BY <1>1 DEF G!Extend

\* A step that leaves the responses is G!Complete or a stutter, whatever it
\* does to an output that is not complete.
LEMMA Completes ==
  ASSUME NEW r \in Rollouts, out[r] # "completed", UNCHANGED weights,
         \A q \in Rollouts : Truncated(Response(q))' = Truncated(Response(q)),
         \A q \in Rollouts \ {r} : out'[q] = out[q]
  PROVE  [G!Next]_Mapped
<1>1. CASE out'[r] = "completed"
  <2>1. G!Complete(r)
    BY <1>1 DEF G!Complete
  <2> QED
    BY <2>1 DEF G!Next
<1>2. CASE out'[r] # "completed"
  BY <1>2 DEF Mapped
<1> QED
  BY <1>1, <1>2

\* A reply moves the tokens of the request to the response.
LEMMA ReplyMaps ==
  ASSUME ResumeInv, NEW r \in Rollouts, ReplyTaken(r),
         \/ ids' = [ids EXCEPT ![r] = Response(r)]
         \/ ids' = [ids EXCEPT ![r] = Truncated(Response(r))],
         \A q \in Rollouts \ {r} : out'[q] = out[q]
  PROVE  [G!Next]_Mapped
<1>1. out[r] # "completed"
  BY DEF ResumeInv, CompleteRests, ReplyTaken
<1>2. \A q \in Rollouts \ {r} : Response(q)' = Response(q)
  BY DEF ReplyTaken, Response, ResumeInv, StartInv, VersionTypes
<1>3. Truncated(Response(r))' = Truncated(Response(r))
  <2>1. Response(r) \in Seq(Token) /\ Truncated(Response(r)) \in Seq(Token)
    BY ResponseCovered DEF ResumeInv
  <2>2. Response(r)' = Response(r) \/ Response(r)' = Truncated(Response(r))
    <3>1. toks'[r] = <<>>
      BY DEF ReplyTaken, ResumeInv, StartInv, VersionTypes
    <3>2. Response(r)' = ids'[r] \o <<>>
      BY <3>1 DEF Response
    <3>3. ids'[r] = Response(r) \/ ids'[r] = Truncated(Response(r))
      BY DEF ResumeInv, StartInv, VersionTypes
    <3>4. \A s \in Seq(Token) : s \o <<>> = s
      OBVIOUS
    <3> QED
      BY <2>1, <3>2, <3>3, <3>4
  <2>3. Truncated(Truncated(Response(r))) = Truncated(Response(r))
    <3>1. \A s \in Seq(Token) : Truncated(Truncated(s)) = Truncated(s)
      BY DEF Truncated
    <3> QED
      BY <2>1, <3>1
  <2>4. CASE Response(r)' = Response(r)
    BY <2>4 DEF Truncated
  <2>5. CASE Response(r)' = Truncated(Response(r))
    BY <2>3, <2>5 DEF Truncated
  <2> QED
    BY <2>2, <2>4, <2>5
<1>4. \A q \in Rollouts : Truncated(Response(q))' = Truncated(Response(q))
  BY <1>2, <1>3 DEF Truncated
<1>5. UNCHANGED weights
  BY DEF ReplyTaken
<1> QED
  BY <1>1, <1>4, <1>5, Completes

\* A token of the engine extends the response, unless it is full.
LEMMA GenerateMaps ==
  ASSUME ResumeInv, NEW r \in Rollouts, Generate(r)
  PROVE  [G!Next]_Mapped
<1> DEFINE s == Response(r)
           t == G!Following(r, s, weights)
<1>1. out[r] # "completed"
  BY DEF ResumeInv, CompleteRests, StartInv, QuietInv, LoopsOwnRequests, Generate
<1>2. s \in Seq(Token) /\ t \in Token
  BY ResponseCovered, FollowingToken DEF ResumeInv, StartInv, VersionTypes
<1>3. s' = Append(s, t)
  <2>1. toks'[r] = Append(toks[r], t) /\ ids' = ids
    BY DEF Generate, ResumeInv, StartInv, VersionTypes, agentVars
  <2>2. ids[r] \in Seq(Token) /\ toks[r] \in Seq(Token)
    BY DEF ResumeInv, StartInv, VersionTypes
  <2> HIDE DEF t
  <2>3. ids[r] \o Append(toks[r], t) = Append(ids[r] \o toks[r], t)
    BY <1>2, <2>2, ConcatAppend
  <2>4. s' = ids[r] \o Append(toks[r], t)
    BY <2>1 DEF Response
  <2>5. s = ids[r] \o toks[r]
    BY DEF Response
  <2> QED
    BY <2>3, <2>4, <2>5
<1>4. \A q \in Rollouts \ {r} : Response(q)' = Response(q)
  BY DEF Generate, Response, ResumeInv, StartInv, VersionTypes, agentVars
<1>5. UNCHANGED <<weights, out>>
  BY DEF Generate, agentVars
<1>6. Truncated(s)' = Truncated(Append(s, t))
  BY <1>3 DEF Truncated
<1> HIDE DEF s, t
<1>7. CASE Len(s) < ResponseLength
  <2>1. Truncated(s) = s /\ Truncated(s)' = Append(s, t)
    BY <1>2, <1>6, <1>7, TruncatedToken
  <2>2. G!Extend(r)
    BY <1>1, <1>4, <1>5, <2>1, Extends DEF s, t
  <2> QED
    BY <2>2 DEF G!Next
<1>8. CASE Len(s) >= ResponseLength
  <2>1. Truncated(s)' = Truncated(s)
    BY <1>2, <1>6, <1>8, TruncatedToken
  <2>2. \A q \in Rollouts : Truncated(Response(q))' = Truncated(Response(q))
    BY <1>4, <2>1 DEF s, Truncated
  <2> QED
    BY <1>1, <1>5, <2>2, Completes
<1>9. Len(s) \in Nat
  BY <1>2
<1> QED
  BY <1>7, <1>8, <1>9, PartialAssumption

\* The answer of the tool extends the response, or ends it.
LEMMA ToolsMap ==
  ASSUME ResumeInv, NEW r \in Rollouts, CallTools(r)
  PROVE  [G!Next]_Mapped
<1> DEFINE t == G!Following(r, ids[r], weights)
<1>1. out[r] # "completed"
  BY DEF ResumeInv, CompleteRests, CallTools, ToolsAnswer, Goes
<1>2. ids[r] \in Seq(Token) /\ toks[r] = <<>> /\ UNCHANGED <<toks, weights>>
  BY DEF ResumeInv, StartInv, QuietInv, LoopsOwnRequests, NothingYet,
         VersionTypes, CallTools, ToolsAnswer, Goes, serverVars
<1>3. \A q \in Rollouts \ {r} :
        /\ Response(q)' = Response(q)
        /\ out'[q] = out[q]
  BY <1>2 DEF Response, CallTools, ToolsAnswer, Completed, ResumeInv, StartInv,
              VersionTypes
<1>4. /\ t \in Token
      /\ \A q \in Seq(Token) : q \o <<>> = q
  BY <1>2, FollowingToken DEF ResumeInv, StartInv, VersionTypes
<1>5. Response(r) = ids[r]
  BY <1>2, <1>4 DEF Response
<1>6. CASE Completed(r, ids[r])
  <2>1. ids'[r] = Truncated(ids[r]) /\ Truncated(ids[r]) \in Seq(Token)
    BY <1>2, <1>6 DEF Completed, ResumeInv, StartInv, VersionTypes, Truncated
  <2>2. Response(r)' = Truncated(ids[r])
    BY <1>2, <1>4, <2>1 DEF Response
  <2>3. Truncated(Truncated(ids[r])) = Truncated(ids[r])
    BY <1>2, <1>4, TruncatedToken
  <2>4. Truncated(Response(r))' = Truncated(Response(r))
    BY <1>5, <2>2, <2>3 DEF Truncated
  <2>5. \A q \in Rollouts : Truncated(Response(q))' = Truncated(Response(q))
    BY <1>3, <2>4 DEF Truncated
  <2> QED
    BY <1>1, <1>2, <1>3, <2>5, Completes
<1>7. CASE /\ Len(ids[r]) + 1 < ResponseLength
           /\ ids' = [ids EXCEPT ![r] = Append(@, t)]
           /\ UNCHANGED out
  <2> HIDE DEF t
  <2>1. Append(ids[r], t) \in Seq(Token) /\ Len(ids[r]) < ResponseLength
    BY <1>2, <1>4, <1>7, PartialAssumption
  <2>2. ids'[r] = Append(ids[r], t)
    BY <1>7 DEF ResumeInv, StartInv, VersionTypes
  <2>3. Response(r)' = Append(ids[r], t)
    BY <1>2, <1>4, <2>1, <2>2 DEF Response
  <2>4. /\ Truncated(ids[r]) = ids[r]
        /\ Truncated(Append(ids[r], t)) = Append(ids[r], t)
    BY <1>2, <1>4, <2>1, TruncatedToken
  <2>5. /\ Truncated(Response(r)) = ids[r]
        /\ Truncated(Response(r))' = Append(ids[r], t)
    BY <1>5, <2>3, <2>4 DEF Truncated
  <2>6. G!Extend(r)
    BY <1>1, <1>2, <1>3, <1>7, <2>5, Extends DEF t
  <2> QED
    BY <2>6 DEF G!Next
<1> QED
  BY <1>6, <1>7 DEF CallTools, ToolsAnswer

\* What moves no token and changes no output maps to a stutter.
LEMMA Stutters ==
  ASSUME UNCHANGED <<ids, toks, out, weights>>
  PROVE  [G!Next]_Mapped
  BY DEF Mapped, Response

LEMMA StepMaps == ResumeInv /\ [Next]_vars => [G!Next]_Mapped
<1> SUFFICES ASSUME ResumeInv, [Next]_vars
             PROVE  [G!Next]_Mapped
  OBVIOUS
<1> USE DEF syncVars, agentVars, serverVars
<1>1. CASE UNCHANGED vars \/ Delivery
  BY <1>1, Stutters DEF vars, Delivery, TellWorker, CancelServer, ResumeServer
<1>2. CASE \/ Submit \/ SampleReturns \/ SampleFails \/ Cancel \/ Gathered
           \/ UpdateVersion \/ Resume \/ Resumed
  BY <1>2, Stutters DEF Submit, Resubmit, SampleReturns, SampleFails, Cancel,
                        Gathered, UpdateVersion, Resume, Resumed
<1>3. CASE LoadWeights
  <2>1. UNCHANGED <<ids, toks, out>> /\ weights' = weights + 1
    BY <1>3 DEF LoadWeights
  <2>2. G!NewWeights
    BY <2>1 DEF G!NewWeights, Response
  <2> QED
    BY <2>2 DEF G!Next
<1>4. ASSUME NEW r \in Rollouts, Serving(r)
      PROVE  [G!Next]_Mapped
  BY <1>4, GenerateMaps, Stutters DEF Serving, Arrive, Arrives, WaitOver, Answered
<1>5. ASSUME NEW r \in Rollouts, AgentLoop(r)
      PROVE  [G!Next]_Mapped
  <2>1. CASE Send(r) \/ Prepare(r)
    BY <2>1, Stutters DEF Send, Request, Prepare
  <2>2. CASE SingleTurnReply(r) \/ ToolReply(r)
    BY <2>2, ReplyMaps DEF SingleTurnReply, ToolReply, Completed, Paused,
                           ResumeInv, StartInv, VersionTypes
  <2>3. CASE CallTools(r)
    BY <2>3, ToolsMap
  <2>4. CASE Interrupted(r)
    <3>1. out[r] # "completed"
      BY <2>4 DEF Interrupted, Stops, ResumeInv, CompleteRests
    <3>2. UNCHANGED <<ids, toks, weights>>
      BY <2>4 DEF Interrupted, Stops
    <3>3. \A q \in Rollouts \ {r} : out'[q] = out[q]
      BY <2>4 DEF Interrupted, Stops, ResumeInv, StartInv, VersionTypes
    <3> QED
      BY <3>1, <3>2, <3>3, Completes DEF Response, Truncated
  <2> QED
    BY <1>5, <2>1, <2>2, <2>3, <2>4 DEF AgentLoop
<1>6. ASSUME NEW r \in Rollouts, Raise(r)
      PROVE  [G!Next]_Mapped
  BY <1>6, Stutters DEF Raise
<1> QED
  BY <1>1, <1>2, <1>3, <1>4, <1>5, <1>6 DEF Next, Rollouter

\* Partial rollout generates every response as if it was never interrupted:
\* no token lost, repeated or out of order, no complete response run again.
THEOREM InterruptionsInvisible == Spec => Uninterrupted
<1>1. Init => G!Init
  <2>1. Truncated(<<>>) = <<>> /\ <<>> \o <<>> = <<>>
    BY PartialAssumption DEF Truncated
  <2>2. Init => \A r \in Rollouts : ids[r] = <<>> /\ toks[r] = <<>>
    BY DEF Init
  <2>3. Init => \A r \in Rollouts : Truncated(Response(r)) = <<>>
    BY <2>1, <2>2 DEF Response
  <2> QED
    BY <2>3 DEF Init, G!Init
<1>2. ResumeInv /\ [Next]_vars => ResumeInv'
  BY StartStep, RestsStep DEF ResumeInv
<1> QED
  BY <1>1, <1>2, ResumeInit, StepMaps, PTL
  DEF Spec, Uninterrupted, G!Spec, Mapped
-------------------------------------------------------------------------------
\* The types the invariants above do not need.
PlainTypes ==
  /\ phase \in {"run", "cancel", "weights", "update", "updated", "resume"}
  /\ todo \subseteq Targets
  /\ sample \in {"fresh", "running", "cancelled", "finished", "failed"}
  /\ raises \in 0..MaxRaises
  /\ stopped \in BOOLEAN
  /\ state \in [Rollouts -> {"pending", "generating", "tools"}]
  /\ ended \in [Rollouts -> BOOLEAN] /\ cancelled \in [Rollouts -> BOOLEAN]

\* The weights are those of the last synchronization, or of the one before it.
WeightsCounted ==
  /\ syncs \in 0..MaxSyncs
  /\ syncs = IF phase \in {"cancel", "weights"} THEN weights + 1 ELSE weights

\* A response that is not complete has room for a token.
RoomLeft ==
  \A r \in Rollouts : out[r] # "completed" => Len(ids[r]) < ResponseLength

TypedInv == ResumeInv /\ PlainTypes /\ WeightsCounted /\ RoomLeft

LEMMA TypedInit == Init => TypedInv
<1> SUFFICES ASSUME Init PROVE TypedInv
  OBVIOUS
<1>1. PlainTypes
  <2>1. raises \in 0..MaxRaises
    BY PartialAssumption DEF Init
  <2> QED
    BY <2>1 DEF Init, PlainTypes
<1>2. WeightsCounted
  BY DEF Init, WeightsCounted
<1>3. \A r \in Rollouts : Len(ids[r]) = 0
  BY DEF Init
<1>4. RoomLeft
  BY <1>3 DEF RoomLeft
<1> QED
  BY <1>1, <1>2, <1>4, ResumeInit DEF TypedInv

LEMMA PlainTypesStep == PlainTypes /\ QuietInv /\ [Next]_vars => PlainTypes'
<1> SUFFICES ASSUME PlainTypes, QuietInv, [Next]_vars
             PROVE  PlainTypes'
  OBVIOUS
<1> USE DEF PlainTypes, syncVars, agentVars, serverVars, Targets
<1>1. CASE UNCHANGED vars
  BY <1>1 DEF vars
<1>2. CASE Rollouter
  BY <1>2 DEF Rollouter, Submit, Resubmit, SampleReturns, SampleFails,
              Cancel, Gathered, LoadWeights, UpdateVersion, Resume, Resumed
<1>3. CASE Delivery
  BY <1>3 DEF Delivery, TellWorker, CancelServer, ResumeServer, Reached
<1>4. ASSUME NEW r \in Rollouts, Serving(r)
      PROVE  PlainTypes'
  <2>1. CASE Arrive(r)
    <3>1. refusing[home[r]] \in BOOLEAN
      BY <2>1 DEF Arrive, Arrives, QuietInv, QuietTypes, LoopsOwnRequests
    <3> QED
      BY <2>1, <3>1 DEF Arrive, Arrives
  <2>2. CASE Generate(r)
    BY <2>2 DEF Generate
  <2>3. CASE WaitOver(r)
    BY <2>3 DEF WaitOver, Answered
  <2> QED
    BY <1>4, <2>1, <2>2, <2>3 DEF Serving
<1>5. ASSUME NEW r \in Rollouts, AgentLoop(r)
      PROVE  PlainTypes'
  <2>1. CASE Send(r) \/ Prepare(r) \/ Interrupted(r)
    BY <2>1 DEF Send, Request, Prepare, Interrupted, Stops
  <2>2. CASE SingleTurnReply(r)
    BY <2>2 DEF SingleTurnReply, ReplyTaken
  <2>3. CASE ToolReply(r)
    BY <2>3 DEF ToolReply, ReplyTaken
  <2>4. CASE CallTools(r)
    BY <2>4 DEF CallTools, ToolsAnswer
  <2> QED
    BY <1>5, <2>1, <2>2, <2>3, <2>4 DEF AgentLoop
<1>6. ASSUME NEW r \in Rollouts, Raise(r)
      PROVE  PlainTypes'
  BY <1>6, PartialAssumption DEF Raise
<1> QED
  BY <1>1, <1>2, <1>3, <1>4, <1>5, <1>6 DEF Next

LEMMA WeightsCountedStep ==
  ASSUME WeightsCounted, weights \in Nat, [Next]_vars
  PROVE  WeightsCounted'
<1> USE DEF WeightsCounted, syncVars
<1>1. CASE Rollouter
  BY <1>1 DEF Rollouter, Submit, Resubmit, SampleReturns, SampleFails,
              Cancel, Gathered, LoadWeights, UpdateVersion, Resume, Resumed
<1>2. CASE UNCHANGED <<phase, syncs, weights>>
  BY <1>2
<1>3. CASE Delivery \/ UNCHANGED vars
  BY <1>2, <1>3 DEF Delivery, TellWorker, CancelServer, ResumeServer, vars
<1>4. ASSUME NEW r \in Rollouts, Serving(r) \/ AgentLoop(r) \/ Raise(r)
      PROVE  UNCHANGED <<phase, syncs, weights>>
  <2>1. CASE Serving(r)
    BY <2>1 DEF Serving, Arrive, Arrives, Generate, WaitOver, Answered
  <2>2. CASE AgentLoop(r)
    BY <2>2 DEF AgentLoop, Send, Request, SingleTurnReply, ToolReply, ReplyTaken,
                Prepare, CallTools, ToolsAnswer, Interrupted, Stops
  <2>3. CASE Raise(r)
    BY <2>3 DEF Raise
  <2> QED
    BY <1>4, <2>1, <2>2, <2>3
<1> QED
  BY <1>1, <1>2, <1>3, <1>4 DEF Next

\* A reply leaves room or completes the response; so does the answer of a tool.
LEMMA RoomLeftStep ==
  ASSUME RoomLeft, ResumeInv, [Next]_vars
  PROVE  RoomLeft'
<1>0. /\ ids \in [Rollouts -> Seq(Token)] /\ out \in [Rollouts -> {"none", "cancelled", "completed"}]
      /\ weights \in Nat
  BY DEF ResumeInv, StartInv, VersionTypes
<1>1. CASE UNCHANGED <<ids, out>>
  BY <1>1 DEF RoomLeft
<1>2. CASE Rollouter \/ Delivery \/ UNCHANGED vars
  BY <1>1, <1>2 DEF Rollouter, Submit, Resubmit, SampleReturns, SampleFails,
              Cancel, Gathered, LoadWeights, UpdateVersion, Resume, Resumed, Delivery, TellWorker,
              CancelServer, ResumeServer, agentVars, vars
<1>3. ASSUME NEW r \in Rollouts, Serving(r)
      PROVE  RoomLeft'
  BY <1>1, <1>3 DEF Serving, Arrive, Arrives, Generate, WaitOver, Answered, agentVars
<1>4. ASSUME NEW r \in Rollouts, AgentLoop(r)
      PROVE  RoomLeft'
  <2>1. CASE Send(r) \/ Prepare(r)
    BY <1>1, <2>1 DEF Send, Request, Prepare
  <2>2. ASSUME NEW s, ids' = [ids EXCEPT ![r] = s],
               \A q \in Rollouts \ {r} : out'[q] = out[q],
               Len(s) < ResponseLength \/ out'[r] = "completed"
        PROVE  RoomLeft'
    BY <1>0, <2>2 DEF RoomLeft
  <2>3. ASSUME NEW s, Completed(r, s)
        PROVE  RoomLeft'
    BY <1>0, <2>2, <2>3 DEF Completed
  <2>4. Response(r) \in Seq(Token)
    BY ResponseCovered DEF ResumeInv
  <2>5. CASE SingleTurnReply(r)
    <3>1. CASE ~Full(r) /\ Paused(r)
      <4>1. Len(Response(r)) < ResponseLength
        BY <2>4, <3>1 DEF Full
      <4>2. /\ ids' = [ids EXCEPT ![r] = Response(r)]
            /\ \A q \in Rollouts \ {r} : out'[q] = out[q]
        BY <1>0, <3>1 DEF Paused
      <4> QED
        BY <2>2, <4>1, <4>2
    <3> QED
      BY <2>3, <2>5, <3>1 DEF SingleTurnReply
  <2>6. CASE ToolReply(r)
    <3>1. CASE ~Full(r) /\ ids' = [ids EXCEPT ![r] = Response(r)] /\ UNCHANGED out
      <4>1. Len(Response(r)) < ResponseLength
        BY <2>4, <3>1 DEF Full
      <4> QED
        BY <2>2, <3>1, <4>1
    <3> QED
      BY <2>3, <2>6, <3>1 DEF ToolReply
  <2>7. CASE CallTools(r)
    <3>1. CASE /\ Len(ids[r]) + 1 < ResponseLength /\ UNCHANGED out
               /\ ids' = [ids EXCEPT ![r] = Append(@, G!Following(r, @, weights))]
      <4>1. ids[r] \in Seq(Token) /\ G!Following(r, ids[r], weights) \in Token
        BY <1>0, FollowingToken
      <4>2. Len(Append(ids[r], G!Following(r, ids[r], weights))) = Len(ids[r]) + 1
        BY <4>1
      <4> QED
        BY <2>2, <3>1, <4>2
    <3> QED
      BY <2>3, <2>7, <3>1 DEF CallTools, ToolsAnswer
  <2>8. CASE Interrupted(r)
    <3>1. out[r] # "completed"
      BY <2>8 DEF Interrupted, Stops, ResumeInv, CompleteRests
    <3> QED
      BY <1>0, <2>8, <3>1 DEF Interrupted, Stops, RoomLeft
  <2> QED
    BY <1>4, <2>1, <2>5, <2>6, <2>7, <2>8 DEF AgentLoop
<1>5. ASSUME NEW r \in Rollouts, Raise(r)
      PROVE  RoomLeft'
  BY <1>1, <1>5 DEF Raise
<1> QED
  BY <1>2, <1>3, <1>4, <1>5 DEF Next

LEMMA TypedStep == TypedInv /\ [Next]_vars => TypedInv'
<1> SUFFICES ASSUME TypedInv, [Next]_vars PROVE TypedInv'
  OBVIOUS
<1>1. ResumeInv'
  BY StartStep, RestsStep DEF TypedInv, ResumeInv
<1>2. PlainTypes' /\ WeightsCounted' /\ RoomLeft'
  BY PlainTypesStep, WeightsCountedStep, RoomLeftStep
  DEF TypedInv, ResumeInv, StartInv, VersionTypes
<1> QED
  BY <1>1, <1>2 DEF TypedInv

\* The variables have their types in every reachable state, and a response that is not
\* complete leaves room for a token, so that a resumed request may generate one.
THEOREM PartialTyped == Spec => []TypeOK
<1>1. TypedInv => TypeOK
  <2> SUFFICES ASSUME TypedInv PROVE TypeOK
    OBVIOUS
  <2>1. start \in [Rollouts -> 0..weights]
    BY DEF TypedInv, ResumeInv, StartInv, VersionTypes, Covered
  <2> QED
    BY <2>1 DEF TypedInv, ResumeInv, StartInv, QuietInv, QuietTypes, VersionTypes,
       PlainTypes, WeightsCounted, RoomLeft, TypeOK
<1> QED
  BY <1>1, TypedInit, TypedStep, PTL DEF Spec
-------------------------------------------------------------------------------
(***************************************************************************)
(* WholeSingle.  A response of the single-turn loop that is not complete   *)
(* stands before the end of its only turn, unless its request has ended,   *)
(* and a request that has ended is not reported as cancelled.  So what     *)
(* completes it is the end of the turn, or response_length.                *)
(***************************************************************************)
InTurn(r, s) == s # <<>> => Last(s).turn = 1 /\ Last(s).pos \in 1..TurnLen[r]
TurnOver(r, s) == s # <<>> /\ Last(s).pos = TurnLen[r]

SingleOf(r) ==
  /\ state[r] = "pending"
  /\ out[r] # "completed" => /\ InTurn(r, Response(r))
                             /\ ended[r] <=> TurnOver(r, Response(r))
  /\ req[r] \in {"none", "sent"} => ~ended[r]
  /\ req[r] = "replied" => (cancelled[r] <=> ~ended[r])
  /\ WholeResponse(r)

SingleInv == \A r \in Rollouts \ ToolRollouts : SingleOf(r)

LEMMA SingleInit == Init => SingleInv
<1> SUFFICES ASSUME Init, NEW r \in Rollouts \ ToolRollouts
             PROVE  SingleOf(r)
  BY DEF SingleInv
<1>1. <<>> \o <<>> = <<>>
  OBVIOUS
<1>2. Response(r) = <<>>
  BY <1>1 DEF Init, Response
<1> QED
  BY <1>2 DEF Init, SingleOf, InTurn, TurnOver, WholeResponse

\* A step that leaves the rollout and its request alone keeps it so.
LEMMA SingleStays ==
  ASSUME NEW r \in Rollouts, SingleOf(r),
         ids'[r] = ids[r], toks'[r] = toks[r], out'[r] = out[r],
         ended'[r] = ended[r], state'[r] = state[r], req'[r] = req[r],
         cancelled'[r] = cancelled[r]
  PROVE  SingleOf(r)'
BY DEF SingleOf, InTurn, TurnOver, WholeResponse, Response

\* The server takes the request, generates a token, answers.
LEMMA ServingSingle ==
  ASSUME TypedInv, NEW r \in Rollouts \ ToolRollouts, SingleOf(r), Serving(r)
  PROVE  SingleOf(r)'
<1> USE DEF TypedInv, ResumeInv, StartInv, VersionTypes, QuietInv, QuietTypes,
            PlainTypes
<1>1. CASE Arrive(r)
  <2>1. /\ UNCHANGED <<ids, toks, out, ended, state>> /\ req[r] = "sent"
        /\ req'[r] = "replied" => cancelled'[r]
    BY <1>1 DEF Arrive, Arrives, agentVars
  <2>2. req'[r] \in {"replied", "waiting"}
    BY <1>1 DEF Arrive, Arrives
  <2>3. Response(r)' = Response(r)
    BY <2>1 DEF Response
  <2> QED
    BY <2>1, <2>2, <2>3 DEF SingleOf, InTurn, TurnOver, WholeResponse
<1>2. CASE Generate(r)
  <2> DEFINE s == Response(r)
             t == G!Following(r, s, weights)
  <2>1. /\ req[r] = "waiting" /\ ~ended[r] /\ UNCHANGED <<ids, out, state, req>>
        /\ toks'[r] = Append(toks[r], t) /\ ended'[r] = (t.pos = TurnLen[r])
    BY <1>2 DEF Generate, agentVars
  <2>2. out[r] # "completed"
    BY <2>1 DEF CompleteRests, LoopsOwnRequests
  <2>3. s \in Seq(Token) /\ t \in Token
    BY ResponseCovered, FollowingToken
  <2>4. TurnLen[r] \in Nat /\ TurnLen[r] >= 1
    BY PartialAssumption
  <2>5. t.turn = 1 /\ t.pos \in 1..TurnLen[r]
    <3>1. CASE s = <<>>
      BY <2>4, <3>1 DEF G!Following
    <3>2. CASE s # <<>>
      <4>1. Last(s).turn = 1 /\ Last(s).pos \in 1..TurnLen[r]
            /\ Last(s).pos # TurnLen[r]
        BY <2>1, <2>2, <3>2 DEF SingleOf, InTurn, TurnOver
      <4>2. G!Last(s) = Last(s)
        BY DEF Last, G!Last
      <4> HIDE DEF s
      <4> QED
        BY <2>4, <3>2, <4>1, <4>2 DEF G!Following
    <3> QED
      BY <3>1, <3>2
  <2> HIDE DEF t
  <2>6. Response(r)' = Append(s, t)
    <3>1. ids[r] \in Seq(Token) /\ toks[r] \in Seq(Token)
      OBVIOUS
    <3> QED
      BY <2>1, <2>3, <3>1, ConcatAppend DEF Response
  <2> HIDE DEF s
  <2>7. Append(s, t) # <<>> /\ Last(Append(s, t)) = t
    BY <2>3 DEF Last
  <2> QED
    BY <2>1, <2>2, <2>5, <2>6, <2>7 DEF SingleOf, InTurn, TurnOver, WholeResponse
<1>3. CASE WaitOver(r)
  <2>1. /\ UNCHANGED <<ids, toks, out, ended, state>> /\ req'[r] = "replied"
        /\ cancelled'[r] = ~ended[r]
    BY <1>3 DEF WaitOver, Answered, agentVars
  <2>2. Response(r)' = Response(r)
    BY <2>1 DEF Response
  <2> QED
    BY <2>1, <2>2 DEF SingleOf, InTurn, TurnOver, WholeResponse
<1> QED
  BY <1>1, <1>2, <1>3 DEF Serving

\* The loop sends its request, and takes the reply.
LEMMA LoopSingle ==
  ASSUME TypedInv, NEW r \in Rollouts \ ToolRollouts, SingleOf(r), AgentLoop(r)
  PROVE  SingleOf(r)'
<1> USE DEF TypedInv, ResumeInv, StartInv, VersionTypes, QuietInv, QuietTypes,
            PlainTypes
<1>1. CASE Send(r)
  <2>1. /\ UNCHANGED <<ids, toks, out, ended, state>> /\ req'[r] = "sent"
        /\ apc[r] = "top"
    BY <1>1 DEF Send, Request, Goes
  <2>2. req[r] = "none"
    BY <2>1 DEF LoopsOwnRequests
  <2>3. Response(r)' = Response(r)
    BY <2>1 DEF Response
  <2> QED
    BY <2>1, <2>2, <2>3 DEF SingleOf, InTurn, TurnOver, WholeResponse
<1>2. CASE SingleTurnReply(r)
  <2> DEFINE s == Response(r)
  <2>1. /\ apc[r] = "await" /\ req[r] = "replied" /\ req'[r] = "none"
        /\ toks'[r] = <<>> /\ ~ended'[r] /\ state' = state
    BY <1>2 DEF SingleTurnReply, ReplyTaken
  <2>2. out[r] # "completed"
    BY <2>1 DEF CompleteRests
  <2>3. s \in Seq(Token) /\ Truncated(s) \in Seq(Token)
    BY ResponseCovered
  <2>4. /\ InTurn(r, s) /\ (ended[r] <=> TurnOver(r, s))
        /\ cancelled[r] <=> ~ended[r]
    BY <2>1, <2>2 DEF SingleOf
  <2>5. CASE Completed(r, s)
    <3>1. out'[r] = "completed" /\ ids'[r] = Truncated(s)
      BY <2>5 DEF Completed
    <3>2. CASE Full(r)
      <4>1. Len(Truncated(s)) >= ResponseLength
        BY <2>3, <3>2, PartialAssumption DEF Truncated, Full
      <4>2. Len(Truncated(s)) + 1 >= ResponseLength
        BY <2>3, <4>1, PartialAssumption
      <4> QED
        BY <2>1, <3>1, <4>2 DEF SingleOf, WholeResponse
    <3>3. CASE ~Full(r)
      <4>1. Truncated(s) = s
        BY <2>3, <3>3, PartialAssumption DEF Truncated, Full
      <4>2. TurnOver(r, s)
        BY <1>2, <2>4, <3>3, <3>1, <2>2 DEF SingleTurnReply, Paused
      <4>3. Last(s).turn = Turns[r] /\ Last(s).pos = TurnLen[r]
        BY <2>4, <4>2, PartialAssumption DEF InTurn, TurnOver
      <4> QED
        BY <2>1, <3>1, <4>1, <4>3 DEF SingleOf, WholeResponse
    <3> QED
      BY <3>2, <3>3
  <2>6. CASE cancelled[r] /\ Paused(r)
    <3>1. out'[r] = "cancelled" /\ ids'[r] = s
      BY <2>6 DEF Paused
    <3>2. Response(r)' = s
      <4> HIDE DEF s
      <4>1. s \o <<>> = s
        BY <2>3
      <4> QED
        BY <2>1, <3>1, <4>1 DEF Response
    <3>3. ~TurnOver(r, s)
      BY <2>4, <2>6
    <3> QED
      BY <2>1, <2>4, <3>1, <3>2, <3>3
         DEF SingleOf, WholeResponse, InTurn, TurnOver
  <2> QED
    BY <1>2, <2>5, <2>6 DEF SingleTurnReply
<1> QED
  BY <1>1, <1>2 DEF AgentLoop, ToolReply, Prepare, CallTools, ToolsAnswer,
     Interrupted, Stops, SingleOf

LEMMA SingleStep ==
  ASSUME TypedInv, SingleInv, [Next]_vars
  PROVE  SingleInv'
<1> USE DEF agentVars, serverVars
<1> SUFFICES ASSUME NEW r \in Rollouts \ ToolRollouts
             PROVE  SingleOf(r)'
  BY DEF SingleInv
<1>0. SingleOf(r)
  BY DEF SingleInv
<1>1. CASE UNCHANGED vars \/ Rollouter \/ Delivery \/ \E q \in Rollouts : Raise(q)
  <2>1. UNCHANGED <<ids, toks, out, ended, state, req, cancelled>>
    BY <1>1 DEF vars, Rollouter, Submit, Resubmit, SampleReturns, SampleFails, Cancel,
       Gathered, LoadWeights, UpdateVersion, Resume, Resumed, Delivery, TellWorker,
       CancelServer, ResumeServer, Raise
  <2> QED
    BY <1>0, <2>1, SingleStays
<1>2. ASSUME NEW q \in Rollouts, q # r, Serving(q)
      PROVE  SingleOf(r)'
  <2>1. /\ UNCHANGED <<ids, out, state>> /\ toks'[r] = toks[r]
        /\ ended'[r] = ended[r] /\ req'[r] = req[r] /\ cancelled'[r] = cancelled[r]
    BY <1>2 DEF Serving, Arrive, Arrives, Generate, WaitOver, Answered,
       TypedInv, ResumeInv, StartInv, VersionTypes, QuietInv, QuietTypes, PlainTypes
  <2> QED
    BY <1>0, <2>1, SingleStays
<1>3. ASSUME NEW q \in Rollouts, q # r, AgentLoop(q)
      PROVE  SingleOf(r)'
  <2> USE DEF TypedInv, ResumeInv, StartInv, VersionTypes, QuietInv, QuietTypes,
              PlainTypes
  <2>1. /\ ids'[r] = ids[r] /\ out'[r] = out[r] /\ state'[r] = state[r]
        /\ toks'[r] = toks[r] /\ ended'[r] = ended[r] /\ req'[r] = req[r]
        /\ cancelled'[r] = cancelled[r]
    <3>1. CASE Send(q) \/ Prepare(q) \/ Interrupted(q)
      BY <1>3, <3>1 DEF Send, Request, Prepare, Interrupted, Stops
    <3>2. CASE SingleTurnReply(q) \/ ToolReply(q)
      <4>1. /\ toks'[r] = toks[r] /\ ended'[r] = ended[r] /\ req'[r] = req[r]
            /\ cancelled'[r] = cancelled[r]
        BY <1>3, <3>2 DEF SingleTurnReply, ToolReply, ReplyTaken
      <4>2. ids'[r] = ids[r] /\ out'[r] = out[r] /\ state'[r] = state[r]
        BY <1>3, <3>2 DEF SingleTurnReply, ToolReply, Completed, Paused
      <4> QED
        BY <4>1, <4>2
    <3>3. CASE CallTools(q)
      BY <1>3, <3>3 DEF CallTools, ToolsAnswer, Completed
    <3> QED
      BY <1>3, <3>1, <3>2, <3>3 DEF AgentLoop
  <2> QED
    BY <1>0, <2>1, SingleStays
<1> QED
  BY <1>0, <1>1, <1>2, <1>3, ServingSingle, LoopSingle DEF Next

\* However often it is interrupted, a complete response of the single-turn loop
\* ends where the model or response_length ends it (WholeSingle).
THEOREM SingleTurnsAreWhole == Spec => []WholeSingle
<1>1. TypedInv /\ SingleInv /\ [Next]_vars => SingleInv'
  BY SingleStep
<1>2. SingleInv => WholeSingle
  BY DEF SingleInv, SingleOf, WholeSingle
<1> QED
  BY <1>1, <1>2, SingleInit, TypedInit, TypedStep, PTL DEF Spec
===============================================================================
