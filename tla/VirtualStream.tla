--------------------------- MODULE VirtualStream ---------------------------
(***************************************************************************)
(* The data path of one tunnel session: a TCP peer inside the hub, the     *)
(* upstream and downstream tasks of accept_loop, recv_loop, the two frame  *)
(* queues of the gRPC stream, the client's frame loop, the run_stream pump *)
(* of each stream and the TCP target inside the spoke.                     *)
(*                                                                         *)
(* Peer and target exchange numbered chunks; a chunk is the payload of one *)
(* Data frame.  A channel is a bounded sequence.  A loop that has cloned a *)
(* stream's sender and awaits room in its channel holds the frame in hubW  *)
(* or cliW, and handles nothing else meanwhile.                            *)
(***************************************************************************)
EXTENDS Integers, Sequences, FiniteSets

CONSTANTS
  Sids,        \* virtual streams of the session
  NoTarget,    \* streams whose target name the client does not know
  MaxChunks,   \* bound: chunks each side sends, by stream
  FrameCap,    \* capacity of server_tx and hub_tx (256 in the code)
  StreamCap    \* capacity of a per-stream channel (64 in the code)

ASSUME SidsAssumption == IsFiniteSet(Sids) /\ NoTarget \subseteq Sids
ASSUME CapsAssumption ==
  MaxChunks \in [Sids -> Nat] /\ FrameCap \in Nat \ {0} /\ StreamCap \in Nat \ {0}

VARIABLES
  up,          \* the session's gRPC stream is up
  toSpoke, toHub,
  streams,     \* hub: SpokeSession.streams, the sids with a writer
  writer,      \* hub: contents of the per-stream writer channel
  upTask,      \* hub: upstream task of a stream
  dnTask,      \* hub: downstream task of a stream
  hubW,        \* hub: Data frame recv_loop is delivering, or NoFrame
  peer,        \* state of the peer's sending side
  peerSent, peerGot,
  cstreams,    \* client: the StreamMap
  inbound,     \* client: contents of the pump's inbound channel
  pump,        \* client: run_stream of a stream
  cliW,        \* client: Data frame the loop is delivering, or NoFrame
  target,      \* state of the target's sending side
  targetSent, targetGot

frames == <<up, toSpoke, toHub>>
hubVars == <<streams, writer, upTask, dnTask, hubW>>
peerVars == <<peer, peerSent, peerGot>>
clientVars == <<cstreams, inbound, pump, cliW>>
targetVars == <<target, targetSent, targetGot>>
vars == <<frames, hubVars, peerVars, clientVars, targetVars>>

Frame(kind, s, n) == [kind |-> kind, sid |-> s, n |-> n]
NoFrame == [kind |-> "none", sid |-> 0, n |-> 0]

Chunks == UNION {1..MaxChunks[s] : s \in Sids}
FrameSet == [kind : {"open", "data", "close"}, sid : Sids, n : Chunks \cup {0}]

(* upTask: "removing" has left the read loop and awaits the streams lock.  *)
(* pump: "drained" ended on a closed inbound channel, "closed" with a      *)
(* Close frame to the hub, "broken" without one.                           *)
TypeOK ==
  /\ up \in BOOLEAN
  /\ toSpoke \in Seq(FrameSet) /\ toHub \in Seq(FrameSet)
  /\ streams \subseteq Sids /\ cstreams \subseteq Sids
  /\ writer \in [Sids -> Seq(Chunks)] /\ inbound \in [Sids -> Seq(Chunks)]
  /\ upTask \in [Sids -> {"none", "opening", "run", "removing", "done"}]
  /\ dnTask \in [Sids -> {"none", "run", "done"}]
  /\ hubW \in FrameSet \cup {NoFrame} /\ cliW \in FrameSet \cup {NoFrame}
  /\ peer \in [Sids -> {"none", "open", "eof", "reset"}]
  /\ target \in [Sids -> {"none", "open", "eof"}]
  /\ peerSent \in [Sids -> Nat] /\ targetSent \in [Sids -> Nat]
  /\ \A s \in Sids : peerSent[s] <= MaxChunks[s] /\ targetSent[s] <= MaxChunks[s]
  /\ peerGot \in [Sids -> Seq(Chunks)] /\ targetGot \in [Sids -> Seq(Chunks)]
  /\ pump \in [Sids -> {"none", "dial", "run", "sending", "closing", "drained",
                        "closed", "broken"}]

Init ==
  /\ up = TRUE /\ toSpoke = << >> /\ toHub = << >>
  /\ streams = {} /\ cstreams = {}
  /\ writer = [s \in Sids |-> << >>] /\ inbound = [s \in Sids |-> << >>]
  /\ upTask = [s \in Sids |-> "none"] /\ dnTask = [s \in Sids |-> "none"]
  /\ hubW = NoFrame /\ cliW = NoFrame
  /\ peer = [s \in Sids |-> "none"] /\ target = [s \in Sids |-> "none"]
  /\ peerSent = [s \in Sids |-> 0] /\ targetSent = [s \in Sids |-> 0]
  /\ peerGot = [s \in Sids |-> << >>] /\ targetGot = [s \in Sids |-> << >>]
  /\ pump = [s \in Sids |-> "none"]

(* server_tx.send and hub_tx.send: await room, fail when the stream is     *)
(* down.                                                                   *)
SendToSpoke(f) ==
  /\ up /\ Len(toSpoke) < FrameCap
  /\ toSpoke' = Append(toSpoke, f)
  /\ UNCHANGED <<up, toHub>>

SendToHub(f) ==
  /\ up /\ Len(toHub) < FrameCap
  /\ toHub' = Append(toHub, f)
  /\ UNCHANGED <<up, toSpoke>>

-----------------------------------------------------------------------------
(* accept_loop and its two tasks                                           *)

(* A peer connects: its writer is registered before Open is sent.          *)
Accept(s) ==
  /\ peer[s] = "none"
  /\ peer' = [peer EXCEPT ![s] = "open"]
  /\ streams' = streams \cup {s}
  /\ upTask' = [upTask EXCEPT ![s] = "opening"]
  /\ UNCHANGED <<frames, writer, dnTask, hubW, peerSent, peerGot, clientVars,
                 targetVars>>

OpenSent(s) ==
  /\ upTask[s] = "opening"
  /\ SendToSpoke(Frame("open", s, 0))
  /\ upTask' = [upTask EXCEPT ![s] = "run"]
  /\ dnTask' = [dnTask EXCEPT ![s] = "run"]
  /\ UNCHANGED <<streams, writer, hubW, peerVars, clientVars, targetVars>>

(* The session is gone: the entry is rolled back, the socket dropped.      *)
OpenFailed(s) ==
  /\ upTask[s] = "opening" /\ ~up
  /\ streams' = streams \ {s}
  /\ upTask' = [upTask EXCEPT ![s] = "done"]
  /\ UNCHANGED <<frames, writer, dnTask, hubW, peerVars, clientVars, targetVars>>

(* Mutant: chunks are taken from the buffer one too early.                 *)
UpstreamData_OffByOne(s) ==
  /\ upTask[s] = "run" /\ peer[s] = "open" /\ peerSent[s] < MaxChunks[s]
  /\ SendToSpoke(Frame("data", s, peerSent[s]))
  /\ peerSent' = [peerSent EXCEPT ![s] = @ + 1]
  /\ UNCHANGED <<hubVars, peer, peerGot, clientVars, targetVars>>

(* Upstream: one read of the peer's socket becomes one Data frame.         *)
UpstreamData(s) ==
  /\ upTask[s] = "run" /\ peer[s] = "open" /\ peerSent[s] < MaxChunks[s]
  /\ SendToSpoke(Frame("data", s, peerSent[s] + 1))
  /\ peerSent' = [peerSent EXCEPT ![s] = @ + 1]
  /\ UNCHANGED <<hubVars, peer, peerGot, clientVars, targetVars>>

(* EOF is announced with a half-close.                                     *)
UpstreamEof(s) ==
  /\ upTask[s] = "run" /\ peer[s] = "eof"
  /\ SendToSpoke(Frame("close", s, 0))
  /\ upTask' = [upTask EXCEPT ![s] = "removing"]
  /\ UNCHANGED <<streams, writer, dnTask, hubW, peerVars, clientVars, targetVars>>

(* The session is gone: the chunk just read is lost and the loop ends.     *)
UpstreamDataFailed(s) ==
  /\ upTask[s] = "run" /\ peer[s] = "open" /\ peerSent[s] < MaxChunks[s]
  /\ ~up
  /\ peerSent' = [peerSent EXCEPT ![s] = @ + 1]
  /\ upTask' = [upTask EXCEPT ![s] = "removing"]
  /\ UNCHANGED <<frames, streams, writer, dnTask, hubW, peer, peerGot,
                 clientVars, targetVars>>

(* A read error, or EOF on a dead session, ends the loop with no frame.    *)
UpstreamBreak(s) ==
  /\ upTask[s] = "run"
  /\ peer[s] = "reset" \/ (peer[s] = "eof" /\ ~up)
  /\ upTask' = [upTask EXCEPT ![s] = "removing"]
  /\ UNCHANGED <<frames, streams, writer, dnTask, hubW, peerVars, clientVars,
                 targetVars>>

UpstreamRemove(s) ==
  /\ upTask[s] = "removing"
  /\ streams' = streams \ {s}
  /\ upTask' = [upTask EXCEPT ![s] = "done"]
  /\ UNCHANGED <<frames, writer, dnTask, hubW, peerVars, clientVars, targetVars>>

(* Downstream: write a payload to the peer.                                *)
DownstreamWrite(s) ==
  /\ dnTask[s] = "run" /\ writer[s] # << >> /\ peer[s] # "reset"
  /\ peerGot' = [peerGot EXCEPT ![s] = Append(@, Head(writer[s]))]
  /\ writer' = [writer EXCEPT ![s] = Tail(@)]
  /\ UNCHANGED <<frames, streams, upTask, dnTask, hubW, peer, peerSent,
                 clientVars, targetVars>>

(* No sender is left: not in the map and not in recv_loop's hands.         *)
WriterClosed(s) == s \notin streams /\ hubW.sid # s

(* Mutant: stop as soon as the senders are gone.                           *)
DownstreamEnd_NoDrain(s) ==
  /\ dnTask[s] = "run"
  /\ WriterClosed(s) \/ (writer[s] # << >> /\ peer[s] = "reset")
  /\ dnTask' = [dnTask EXCEPT ![s] = "done"]
  /\ UNCHANGED <<frames, streams, writer, upTask, hubW, peerVars, clientVars,
                 targetVars>>

(* The channel is closed and drained, or the write fails: shut down.       *)
DownstreamEnd(s) ==
  /\ dnTask[s] = "run"
  /\ \/ writer[s] = << >> /\ WriterClosed(s)
     \/ writer[s] # << >> /\ peer[s] = "reset"
  /\ dnTask' = [dnTask EXCEPT ![s] = "done"]
  /\ UNCHANGED <<frames, streams, writer, upTask, hubW, peerVars, clientVars,
                 targetVars>>

-----------------------------------------------------------------------------
(* recv_loop                                                               *)

HubHead(kind) == up /\ hubW = NoFrame /\ toHub # << >> /\ Head(toHub).kind = kind
HubPop == toHub' = Tail(toHub) /\ UNCHANGED <<up, toSpoke>>

(* Data: clone the writer under the lock; drop data of an unknown stream.  *)
HubData ==
  /\ HubHead("data") /\ HubPop
  /\ hubW' = IF Head(toHub).sid \in streams THEN Head(toHub) ELSE NoFrame
  /\ UNCHANGED <<streams, writer, upTask, dnTask, peerVars, clientVars,
                 targetVars>>

HubDeliver ==
  /\ hubW # NoFrame
  /\ dnTask[hubW.sid] # "done" /\ Len(writer[hubW.sid]) < StreamCap
  /\ writer' = [writer EXCEPT ![hubW.sid] = Append(@, hubW.n)]
  /\ hubW' = NoFrame
  /\ UNCHANGED <<frames, streams, upTask, dnTask, peerVars, clientVars,
                 targetVars>>

(* The downstream task is gone: forget the stream.                         *)
HubDeliverFailed ==
  /\ hubW # NoFrame /\ dnTask[hubW.sid] = "done"
  /\ streams' = streams \ {hubW.sid}
  /\ hubW' = NoFrame
  /\ UNCHANGED <<frames, writer, upTask, dnTask, peerVars, clientVars,
                 targetVars>>

(* Mutant: a Close frame is taken for a half-close and keeps the writer.   *)
HubClose_KeepsWriter ==
  /\ HubHead("close") /\ HubPop
  /\ UNCHANGED <<hubVars, peerVars, clientVars, targetVars>>

HubClose ==
  /\ HubHead("close") /\ HubPop
  /\ streams' = streams \ {Head(toHub).sid}
  /\ UNCHANGED <<writer, upTask, dnTask, hubW, peerVars, clientVars, targetVars>>

-----------------------------------------------------------------------------
(* The client's frame loop                                                 *)

CliHead(kind) == up /\ cliW = NoFrame /\ toSpoke # << >> /\ Head(toSpoke).kind = kind
CliPop == toSpoke' = Tail(toSpoke) /\ UNCHANGED <<up, toHub>>

(* Open: the entry is inserted before the pump is spawned.                 *)
CliOpen ==
  /\ CliHead("open") /\ Head(toSpoke).sid \notin NoTarget
  /\ CliPop
  /\ cstreams' = cstreams \cup {Head(toSpoke).sid}
  /\ pump' = [pump EXCEPT ![Head(toSpoke).sid] = "dial"]
  /\ UNCHANGED <<hubVars, peerVars, inbound, cliW, targetVars>>

(* An unknown target is answered with a full close.                        *)
CliOpenUnknown ==
  /\ CliHead("open") /\ Head(toSpoke).sid \in NoTarget
  /\ Len(toHub) < FrameCap
  /\ toSpoke' = Tail(toSpoke)
  /\ toHub' = Append(toHub, Frame("close", Head(toSpoke).sid, 0))
  /\ UNCHANGED <<up, hubVars, peerVars, clientVars, targetVars>>

CliData ==
  /\ CliHead("data") /\ CliPop
  /\ cliW' = IF Head(toSpoke).sid \in cstreams THEN Head(toSpoke) ELSE NoFrame
  /\ UNCHANGED <<hubVars, peerVars, cstreams, inbound, pump, targetVars>>

PumpEnded(s) == pump[s] \in {"drained", "closed", "broken"}

(* Mutant: the frame is delivered and offered again, as a retry would.     *)
CliDeliver_Twice ==
  /\ cliW # NoFrame
  /\ PumpEnded(cliW.sid) \/ Len(inbound[cliW.sid]) < StreamCap
  /\ inbound' = IF PumpEnded(cliW.sid) THEN inbound
                ELSE [inbound EXCEPT ![cliW.sid] = Append(@, cliW.n)]
  /\ UNCHANGED <<frames, hubVars, peerVars, cstreams, pump, cliW, targetVars>>

(* A failed delivery is only logged.                                       *)
CliDeliver ==
  /\ cliW # NoFrame
  /\ PumpEnded(cliW.sid) \/ Len(inbound[cliW.sid]) < StreamCap
  /\ inbound' = IF PumpEnded(cliW.sid) THEN inbound
                ELSE [inbound EXCEPT ![cliW.sid] = Append(@, cliW.n)]
  /\ cliW' = NoFrame
  /\ UNCHANGED <<frames, hubVars, peerVars, cstreams, pump, targetVars>>

(* Mutant: a Close frame discards what the pump has not written yet.       *)
CliClose_Discards ==
  /\ CliHead("close") /\ CliPop
  /\ cstreams' = cstreams \ {Head(toSpoke).sid}
  /\ inbound' = [inbound EXCEPT ![Head(toSpoke).sid] = << >>]
  /\ UNCHANGED <<hubVars, peerVars, pump, cliW, targetVars>>

CliClose ==
  /\ CliHead("close") /\ CliPop
  /\ cstreams' = cstreams \ {Head(toSpoke).sid}
  /\ UNCHANGED <<hubVars, peerVars, inbound, pump, cliW, targetVars>>

-----------------------------------------------------------------------------
(* run_stream                                                              *)

EndPump(s, how) ==
  /\ pump' = [pump EXCEPT ![s] = how]
  /\ cstreams' = cstreams \ {s}
  /\ inbound' = [inbound EXCEPT ![s] = << >>]

DialOk(s) ==
  /\ pump[s] = "dial"
  /\ pump' = [pump EXCEPT ![s] = "run"]
  /\ target' = [target EXCEPT ![s] = "open"]
  /\ UNCHANGED <<frames, hubVars, peerVars, cstreams, inbound, cliW, targetSent,
                 targetGot>>

(* Refused or timed out: a full close, which fails if the session is down. *)
DialFail(s) ==
  /\ pump[s] = "dial"
  /\ \/ SendToHub(Frame("close", s, 0)) /\ EndPump(s, "closed")
     \/ ~up /\ UNCHANGED frames /\ EndPump(s, "broken")
  /\ UNCHANGED <<hubVars, peerVars, cliW, targetVars>>

(* One read of the target becomes one Data frame.  The pump awaits room in *)
(* hub_tx inside the select arm, where it does not drain its inbound.      *)
PumpRead(s) ==
  /\ pump[s] = "run" /\ target[s] = "open" /\ targetSent[s] < MaxChunks[s]
  /\ targetSent' = [targetSent EXCEPT ![s] = @ + 1]
  /\ pump' = [pump EXCEPT ![s] = "sending"]
  /\ UNCHANGED <<frames, hubVars, peerVars, cstreams, inbound, cliW, target,
                 targetGot>>

PumpSend(s) ==
  /\ pump[s] = "sending"
  /\ SendToHub(Frame("data", s, targetSent[s]))
  /\ pump' = [pump EXCEPT ![s] = "run"]
  /\ UNCHANGED <<hubVars, peerVars, cstreams, inbound, cliW, targetVars>>

(* hub_tx is closed: the chunk is lost and the pump ends.                  *)
PumpSendFailed(s) ==
  /\ pump[s] = "sending" /\ ~up
  /\ EndPump(s, "broken")
  /\ UNCHANGED <<frames, hubVars, peerVars, cliW, targetVars>>

(* EOF or a read error of the target: half-close, and the pump ends.       *)
PumpReadEof(s) ==
  /\ pump[s] = "run" /\ target[s] = "eof"
  /\ pump' = [pump EXCEPT ![s] = "closing"]
  /\ UNCHANGED <<frames, hubVars, peerVars, cstreams, inbound, cliW, targetVars>>

PumpEof(s) ==
  /\ pump[s] = "closing"
  /\ \/ SendToHub(Frame("close", s, 0)) /\ EndPump(s, "closed")
     \/ ~up /\ UNCHANGED frames /\ EndPump(s, "broken")
  /\ UNCHANGED <<hubVars, peerVars, cliW, targetVars>>

PumpWrite(s) ==
  /\ pump[s] = "run" /\ inbound[s] # << >>
  /\ targetGot' = [targetGot EXCEPT ![s] = Append(@, Head(inbound[s]))]
  /\ inbound' = [inbound EXCEPT ![s] = Tail(@)]
  /\ UNCHANGED <<frames, hubVars, peerVars, cstreams, pump, cliW, target,
                 targetSent>>

(* The write fails: the pump ends and the hub is not told.                 *)
PumpWriteFailed(s) ==
  /\ pump[s] = "run" /\ inbound[s] # << >>
  /\ EndPump(s, "broken")
  /\ UNCHANGED <<frames, hubVars, peerVars, cliW, targetVars>>

(* Every sender of the inbound channel is dropped and it is drained.       *)
PumpClosed(s) ==
  /\ pump[s] = "run" /\ inbound[s] = << >>
  /\ s \notin cstreams /\ cliW.sid # s
  /\ EndPump(s, "drained")
  /\ UNCHANGED <<frames, hubVars, peerVars, cliW, targetVars>>

-----------------------------------------------------------------------------
(* Environment                                                             *)

PeerEof(s) ==
  /\ peer[s] = "open"
  /\ peer' = [peer EXCEPT ![s] = "eof"]
  /\ UNCHANGED <<frames, hubVars, peerSent, peerGot, clientVars, targetVars>>

PeerReset(s) ==
  /\ peer[s] \in {"open", "eof"}
  /\ peer' = [peer EXCEPT ![s] = "reset"]
  /\ UNCHANGED <<frames, hubVars, peerSent, peerGot, clientVars, targetVars>>

TargetEof(s) ==
  /\ target[s] = "open"
  /\ target' = [target EXCEPT ![s] = "eof"]
  /\ UNCHANGED <<frames, hubVars, peerVars, clientVars, targetSent, targetGot>>

(* The session ends: frames in flight are lost and SpokeSession::close     *)
(* drops every writer.  The client's map lives on with its pumps.          *)
SessionDown ==
  /\ up
  /\ up' = FALSE
  /\ toSpoke' = << >> /\ toHub' = << >>
  /\ streams' = {}
  /\ UNCHANGED <<writer, upTask, dnTask, hubW, peerVars, clientVars, targetVars>>

-----------------------------------------------------------------------------
HubTasks(s) ==
  \/ OpenSent(s) \/ OpenFailed(s) \/ UpstreamData(s) \/ UpstreamEof(s)
  \/ UpstreamDataFailed(s) \/ UpstreamBreak(s) \/ UpstreamRemove(s)
  \/ DownstreamWrite(s) \/ DownstreamEnd(s)

RecvLoop == HubData \/ HubDeliver \/ HubDeliverFailed \/ HubClose

FrameLoop == CliOpen \/ CliOpenUnknown \/ CliData \/ CliDeliver \/ CliClose

RunStream(s) ==
  \/ DialOk(s) \/ DialFail(s) \/ PumpRead(s) \/ PumpSend(s) \/ PumpSendFailed(s)
  \/ PumpReadEof(s) \/ PumpEof(s)
  \/ PumpWrite(s) \/ PumpWriteFailed(s) \/ PumpClosed(s)

Environment(s) == Accept(s) \/ PeerEof(s) \/ PeerReset(s) \/ TargetEof(s)

Next ==
  \/ RecvLoop \/ FrameLoop \/ SessionDown
  \/ \E s \in Sids : HubTasks(s) \/ RunStream(s) \/ Environment(s)

Spec == Init /\ [][Next]_vars

(* The loops, downstream tasks and pumps proceed when they can; a dial     *)
(* ends within its 5 s; peer and target read what is written to them.      *)
(* Neither is bound to send or to close, and nothing is asked of the       *)
(* upstream tasks.                                                         *)
Fairness ==
  /\ WF_vars(RecvLoop) /\ WF_vars(FrameLoop)
  /\ \A s \in Sids : WF_vars(DownstreamWrite(s) \/ DownstreamEnd(s))
  /\ \A s \in Sids \ NoTarget :
       WF_vars(DialOk(s) \/ DialFail(s) \/ PumpSend(s) \/ PumpSendFailed(s)
               \/ PumpReadEof(s) \/ PumpEof(s) \/ PumpWrite(s) \/ PumpClosed(s))

FairSpec == Spec /\ Fairness

-----------------------------------------------------------------------------
(* Properties                                                              *)

(* got is a gapless prefix of the chunks 1..sent.                          *)
Prefix(got, sent) == Len(got) <= sent /\ \A i \in DOMAIN got : got[i] = i

(* Each end receives a prefix of what the other end of the same stream     *)
(* sent, in order and without duplicates, however the two loops, the pumps *)
(* and the closes interleave and wherever a channel is full.               *)
InOrder ==
  \A s \in Sids :
    Prefix(targetGot[s], peerSent[s]) /\ Prefix(peerGot[s], targetSent[s])

(* The half-close of the peer overtakes none of its data: a pump that ends *)
(* because the hub closed the stream has written every chunk of the peer.  *)
DrainedComplete ==
  \A s \in Sids : pump[s] = "drained" => Len(targetGot[s]) = peerSent[s]

(* While the session lasts, a peer that keeps its side open sees the end   *)
(* of the stream only after every chunk the target sent.                   *)
ResponseComplete ==
  \A s \in Sids :
    (up /\ peer[s] = "open" /\ dnTask[s] = "done") =>
      Len(peerGot[s]) = targetSent[s]

Carries(queue, f) == \E i \in DOMAIN queue : queue[i] = f

(* The client has sent a Close for the stream: its pump did, or its target *)
(* was unknown.                                                            *)
SpokeClosed(s) ==
  \/ pump[s] = "closed"
  \/ s \in NoTarget /\ dnTask[s] # "none" /\ ~Carries(toSpoke, Frame("open", s, 0))

(* The hub has sent one: the upstream task found the end of the peer.      *)
HubClosed(s) == peer[s] = "eof" /\ upTask[s] \in {"removing", "done"}

(* A Close ends the connection at the other side: again and again there is *)
(* a moment with none outstanding.  Neither full channels in both          *)
(* directions nor another stream at the head of the line make the two      *)
(* loops and the pumps wait on each other for ever.                        *)
CloseTakesEffect ==
  []<>(\A s \in Sids :
         /\ SpokeClosed(s) => dnTask[s] = "done"
         /\ (up /\ HubClosed(s) /\ s \notin NoTarget) => PumpEnded(s))

-----------------------------------------------------------------------------
(* What the documentation claims, and the code does not keep.              *)

(* "CloseStream (both directions): half-close or full close."  A peer that *)
(* closed only its sending side still receives what the target sends.      *)
HalfCloseKeepsResponse ==
  \A s \in Sids :
    (up /\ peer[s] = "eof" /\ dnTask[s] = "done") =>
      Len(peerGot[s]) = targetSent[s]
=============================================================================
