---------------------------- MODULE ChannelSetup ----------------------------
(***************************************************************************)
(* How a client and the daemon come to share three segments: create and    *)
(* connect of the client (atlas-client/src/channel.rs), join and register  *)
(* of the daemon (atlas-service/src/channel.rs, service.rs, main.rs).  One *)
(* step is one system call, or one use of the magic of a ring, so that the *)
(* processes interleave between them.  What then travels over the rings is *)
(* here only as far as it tells whose requests and answers are in which    *)
(* segment: a segment outlives the processes that map it.                  *)
(***************************************************************************)
EXTENDS Naturals, Sequences, FiniteSets

CONSTANTS NumInstances,      \* the daemon's arguments are 1 .. NumInstances
          Tries,             \* attempts of connect, 200 in the code
          CallsMayFail,      \* whether a system call may fail
          MaxClientStarts, MaxServiceStarts   \* bounds on the processes

ASSUME SetupAssumption ==
  /\ NumInstances \in Nat \ {0} /\ Tries \in Nat \ {0}
  /\ CallsMayFail \in BOOLEAN
  /\ MaxClientStarts \in Nat /\ MaxServiceStarts \in Nat

Instances == 1 .. NumInstances
Kinds == {"req", "resp", "data"}

VARIABLES
  linked,     \* which names exist in /dev/shm
  objects,    \* the segments created under each name, the newest last
  client, clientStep, clientMap, tries, clientStarts,
  svc, arg, joinStep, serviceMap, serving, serviceStarts,
  inOrder,    \* processes were started in the documented order so far
  requests,   \* in the request rings: in which segment, from which process
  answers     \* in the response rings: in which segment, to which process

segments == <<linked, objects>>
clientVars == <<client, clientStep, clientMap, tries, clientStarts>>
serviceVars == <<svc, arg, joinStep, serviceMap, serving, serviceStarts>>
setupVars == <<segments, clientVars, serviceVars, inOrder>>
traffic == <<requests, answers>>
vars == <<setupVars, traffic>>

\* A process maps segment number m[k] of kind k, 0 for none.
Unmapped == [k \in Kinds |-> 0]

Init ==
  /\ linked = [i \in Instances |-> [k \in Kinds |-> FALSE]]
  /\ objects = [i \in Instances |-> [k \in Kinds |-> <<>>]]
  /\ client = [i \in Instances |-> "off"]
  /\ clientStep = [i \in Instances |-> 1]
  /\ clientMap = [i \in Instances |-> Unmapped]
  /\ tries = [i \in Instances |-> 0]
  /\ clientStarts = [i \in Instances |-> 0]
  /\ svc = "off" /\ arg = 1 /\ joinStep = 1
  /\ serviceMap = [i \in Instances |-> Unmapped]
  /\ serving = {} /\ serviceStarts = 0
  /\ inOrder = TRUE
  /\ requests = {} /\ answers = {}
-----------------------------------------------------------------------------
(* The calls, and what they do to the segments of instance i for a process *)
(* that maps m.                                                            *)

CreationKeepsResp ==
  << <<"unlink", "req">>, <<"open", "req">>, <<"truncate", "req">>,
     <<"init", "req">>,
     <<"unlink", "data">>, <<"open", "data">>, <<"truncate", "data">> >>

\* PreparedChannel::create: cleanup_shm, create_ring_shm, DataRegion::create.
Creation ==
  << <<"unlink", "req">>, <<"unlink", "resp">>, <<"unlink", "data">>,
     <<"unlink", "req">>, <<"open", "req">>, <<"truncate", "req">>,
     <<"init", "req">>,
     <<"unlink", "data">>, <<"open", "data">>, <<"truncate", "data">> >>

\* ServiceChannel::join.
Joining ==
  << <<"find", "req">>, <<"attach", "req">>,
     <<"open", "resp">>, <<"truncate", "resp">>, <<"init", "resp">>,
     <<"find", "data">> >>

Latest(i, k) == Len(objects[i][k])
Sized(i, k, m) == objects[i][k][m[k]].sized
Ready(i, k, m) == objects[i][k][m[k]].magic

\* With O_CREAT: the segment of that name, or a new and empty one.  "born",
\* the number of clients that had been started by then, is its age, of which
\* the proofs speak; no step and no property reads it.
OpenOrCreate(i, k) ==
  /\ linked' = [linked EXCEPT ![i][k] = TRUE]
  /\ objects' = IF linked[i][k] THEN objects
                ELSE [objects EXCEPT ![i][k] =
                        Append(@, [sized |-> FALSE, magic |-> FALSE,
                                   born |-> clientStarts[i]])]

CanAttachUnready(i, k, m) == Sized(i, k, m)
CanAttach(i, k, m) == Sized(i, k, m) /\ Ready(i, k, m)

Perform(i, call, m) ==
  LET k == call[2] IN
    \/ /\ call[1] = "unlink"
       /\ linked' = [linked EXCEPT ![i][k] = FALSE]
       /\ UNCHANGED objects
    \/ call[1] = "open" /\ OpenOrCreate(i, k)
    \/ /\ call[1] = "truncate"
       /\ objects' = [objects EXCEPT ![i][k][m[k]].sized = TRUE]
       /\ UNCHANGED linked
    \/ /\ call[1] = "init"
       /\ objects' = [objects EXCEPT ![i][k][m[k]].magic = TRUE]
       /\ UNCHANGED linked
    \/ call[1] = "find" /\ linked[i][k] /\ UNCHANGED segments
    \/ call[1] = "attach" /\ CanAttach(i, k, m) /\ UNCHANGED segments

\* What the process maps after the call.
MapAfter(i, call, m) ==
  IF call[1] \in {"open", "find"}
  THEN [m EXCEPT ![call[2]] = Len(objects'[i][call[2]])]
  ELSE m

\* The call returns an error: shm_open of a missing name, attach that has
\* seen no magic for its million loops, or any call that meets a limit.  The
\* result of unlink is ignored, and init has none: "init" is refused where
\* the mmap before it fails, on a segment that has its size and no magic.  An
\* mmap that fails elsewhere leaves what the refusal of "find" or the death
\* of the process leaves.
Refused(i, call, m) ==
  \/ call[1] = "find" /\ ~linked[i][call[2]]
  \/ call[1] = "attach" /\ Sized(i, call[2], m) /\ ~Ready(i, call[2], m)
  \/ CallsMayFail /\ call[1] \in {"open", "truncate", "init", "find"}

\* The magic lies behind the end of the segment: SIGBUS.
BusError(i, call, m) == call[1] = "attach" /\ ~Sized(i, call[2], m)
-----------------------------------------------------------------------------
(* The client of instance i.                                               *)

Gone == {"off", "failed", "killed"}

StartClient(i) ==
  /\ client[i] \in Gone
  /\ clientStarts[i] < MaxClientStarts
  /\ client' = [client EXCEPT ![i] = "creating"]
  /\ clientStep' = [clientStep EXCEPT ![i] = 1]
  /\ clientMap' = [clientMap EXCEPT ![i] = Unmapped]
  /\ tries' = [tries EXCEPT ![i] = 0]
  /\ clientStarts' = [clientStarts EXCEPT ![i] = @ + 1]
  /\ UNCHANGED <<segments, serviceVars>>

CreateCall(i) ==
  /\ client[i] = "creating"
  /\ LET call == Creation[clientStep[i]] IN
       /\ Perform(i, call, clientMap[i])
       /\ clientMap' = [clientMap EXCEPT ![i] = MapAfter(i, call, @)]
  /\ IF clientStep[i] = Len(Creation)
     THEN /\ client' = [client EXCEPT ![i] = "prepared"]
          /\ UNCHANGED clientStep
     ELSE /\ clientStep' = [clientStep EXCEPT ![i] = @ + 1]
          /\ UNCHANGED client
  /\ UNCHANGED <<tries, clientStarts, serviceVars>>

CreateFails(i) ==
  /\ client[i] = "creating"
  /\ Refused(i, Creation[clientStep[i]], clientMap[i])
  /\ client' = [client EXCEPT ![i] = "failed"]
  /\ UNCHANGED <<segments, clientStep, clientMap, tries, clientStarts, serviceVars>>

StartConnect(i) ==
  /\ client[i] = "prepared"
  /\ client' = [client EXCEPT ![i] = "connecting"]
  /\ UNCHANGED <<segments, clientStep, clientMap, tries, clientStarts, serviceVars>>

FindResp == <<"find", "resp">>
AttachResp == <<"attach", "resp">>

OpenResp(i) ==
  /\ client[i] = "connecting" /\ tries[i] < Tries
  /\ Perform(i, FindResp, clientMap[i])
  /\ clientMap' = [clientMap EXCEPT ![i] = MapAfter(i, FindResp, @)]
  /\ client' = [client EXCEPT ![i] = "attaching"]
  /\ UNCHANGED <<clientStep, tries, clientStarts, serviceVars>>

Connected(i) ==
  /\ client[i] = "attaching"
  /\ Perform(i, AttachResp, clientMap[i])
  /\ client' = [client EXCEPT ![i] = "connected"]
  /\ UNCHANGED <<clientStep, clientMap, tries, clientStarts, serviceVars>>

RetryForever(i) ==
  /\ \/ client[i] = "connecting" /\ Refused(i, FindResp, clientMap[i])
     \/ client[i] = "attaching" /\ Refused(i, AttachResp, clientMap[i])
  /\ client' = [client EXCEPT ![i] = "connecting"]
  /\ UNCHANGED <<tries, segments, clientStep, clientMap, clientStarts, serviceVars>>

RetryOnceMore(i) ==
  /\ \/ client[i] = "connecting" /\ Refused(i, FindResp, clientMap[i])
     \/ client[i] = "attaching" /\ Refused(i, AttachResp, clientMap[i])
  /\ client' = [client EXCEPT ![i] = "connecting"]
  /\ tries' = [tries EXCEPT ![i] = @ + 1]
  /\ UNCHANGED <<segments, clientStep, clientMap, clientStarts, serviceVars>>

\* An attempt fails, and the loop sleeps and goes on.
Retry(i) ==
  /\ \/ client[i] = "connecting" /\ tries[i] < Tries
        /\ Refused(i, FindResp, clientMap[i])
     \/ client[i] = "attaching" /\ Refused(i, AttachResp, clientMap[i])
  /\ client' = [client EXCEPT ![i] = "connecting"]
  /\ tries' = [tries EXCEPT ![i] = @ + 1]
  /\ UNCHANGED <<segments, clientStep, clientMap, clientStarts, serviceVars>>

\* "timeout joining resp ring"
TimeOut(i) ==
  /\ client[i] = "connecting" /\ tries[i] = Tries
  /\ client' = [client EXCEPT ![i] = "failed"]
  /\ UNCHANGED <<segments, clientStep, clientMap, tries, clientStarts, serviceVars>>

ClientDies(i) ==
  /\ client[i] \notin Gone
  /\ client' = [client EXCEPT ![i] = "killed"]
  /\ UNCHANGED <<segments, clientStep, clientMap, tries, clientStarts, serviceVars>>

ClientBusError(i) ==
  /\ client[i] = "attaching"
  /\ BusError(i, AttachResp, clientMap[i])
  /\ ClientDies(i)

ClientStep(i) ==
  \/ CreateCall(i) \/ CreateFails(i)
  \/ OpenResp(i) \/ Connected(i) \/ Retry(i) \/ TimeOut(i)
  \/ ClientBusError(i)
-----------------------------------------------------------------------------
(* The daemon: it joins the instances of its command line, then runs.      *)

StartService ==
  /\ svc \in Gone
  /\ serviceStarts < MaxServiceStarts
  /\ svc' = "registering" /\ arg' = 1 /\ joinStep' = 1
  /\ serviceMap' = [i \in Instances |-> Unmapped]
  /\ serving' = {}
  /\ serviceStarts' = serviceStarts + 1
  /\ UNCHANGED <<segments, clientVars>>

Registering == svc = "registering" /\ arg \in Instances

\* At the last call the channel is registered.
JoinCall ==
  /\ Registering
  /\ LET call == Joining[joinStep] IN
       /\ Perform(arg, call, serviceMap[arg])
       /\ serviceMap' = [serviceMap EXCEPT ![arg] = MapAfter(arg, call, @)]
  /\ IF joinStep = Len(Joining)
     THEN serving' = serving \cup {arg} /\ arg' = arg + 1 /\ joinStep' = 1
     ELSE joinStep' = joinStep + 1 /\ UNCHANGED <<serving, arg>>
  /\ UNCHANGED <<svc, serviceStarts, clientVars>>

RetryJoin ==
  /\ Registering
  /\ Refused(arg, Joining[joinStep], serviceMap[arg])
  /\ serviceMap' = [serviceMap EXCEPT ![arg] = Unmapped]
  /\ joinStep' = 1
  /\ UNCHANGED <<segments, svc, arg, serving, serviceStarts, clientVars>>

\* register returns an error: it is reported, and the next one is tried.
JoinFails ==
  /\ Registering
  /\ Refused(arg, Joining[joinStep], serviceMap[arg])
  /\ serviceMap' = [serviceMap EXCEPT ![arg] = Unmapped]
  /\ arg' = arg + 1 /\ joinStep' = 1
  /\ UNCHANGED <<segments, svc, serving, serviceStarts, clientVars>>

Run ==
  /\ svc = "registering" /\ arg \notin Instances
  /\ svc' = "running"
  /\ UNCHANGED <<segments, arg, joinStep, serviceMap, serving, serviceStarts,
                 clientVars>>

ServiceDies ==
  /\ svc \notin Gone
  /\ svc' = "killed" /\ serving' = {}
  /\ UNCHANGED <<segments, arg, joinStep, serviceMap, serviceStarts, clientVars>>

ServiceBusError ==
  /\ Registering
  /\ BusError(arg, Joining[joinStep], serviceMap[arg])
  /\ ServiceDies

ServiceStep == JoinCall \/ JoinFails \/ Run \/ ServiceBusError
-----------------------------------------------------------------------------
\* The order of docs/src/usage/running.md: a client creates its segments
\* before the daemon is started, never while it registers.
Start ==
  \/ \E i \in Instances : StartClient(i) /\ inOrder' = (inOrder /\ svc # "registering")
  \/ /\ StartService
     /\ inOrder' = (inOrder /\ \A i \in Instances : client[i] \notin {"off", "creating"})

SetupStep ==
  \/ Start
  \/ /\ \/ \E i \in Instances : ClientStep(i) \/ StartConnect(i) \/ ClientDies(i)
        \/ ServiceStep \/ ServiceDies
     /\ UNCHANGED inOrder
-----------------------------------------------------------------------------
(* Traffic.  The rings keep what is in them, whoever maps them next: attach*)
(* and init_in_place do not touch the counters of a ring that has a magic. *)
(* How many requests a process has made, and their order, is left out.     *)

\* In segment number "ring" of instance i, by or for its client number "from".
Message(i, ring, from) == [inst |-> i, ring |-> ring, from |-> from]

In(messages, i, ring) == {m \in messages : m.inst = i /\ m.ring = ring}

Ask(i) ==
  /\ client[i] = "connected"
  /\ requests' = requests \cup {Message(i, clientMap[i]["req"], clientStarts[i])}
  /\ UNCHANGED <<setupVars, answers>>

\* poll_request and, a round later, send_response: the answer goes to the
\* response ring that the daemon has mapped for the same instance.
Answer(i) ==
  /\ svc = "running" /\ i \in serving
  /\ \E q \in In(requests, i, serviceMap[i]["req"]) :
       /\ requests' = requests \ {q}
       /\ answers' = answers \cup {Message(i, serviceMap[i]["resp"], q.from)}
  /\ UNCHANGED setupVars

Receive(i) ==
  /\ client[i] = "connected"
  /\ \E a \in In(answers, i, clientMap[i]["resp"]) : answers' = answers \ {a}
  /\ UNCHANGED <<setupVars, requests>>

TrafficStep == \E i \in Instances : Ask(i) \/ Answer(i) \/ Receive(i)

Next == (SetupStep /\ UNCHANGED traffic) \/ TrafficStep

Spec == Init /\ [][Next]_vars

\* A process that is started runs; when, and whether connect is called, is
\* up to its owner.
LiveSpec ==
  /\ Spec
  /\ WF_vars(ServiceStep /\ UNCHANGED <<inOrder, traffic>>)
  /\ \A i \in Instances : WF_vars(ClientStep(i) /\ UNCHANGED <<inOrder, traffic>>)
-----------------------------------------------------------------------------
(* Types.                                                                  *)
TypeOK ==
  /\ linked \in [Instances -> [Kinds -> BOOLEAN]]
  /\ client \in [Instances -> Gone \cup {"creating", "prepared", "connecting",
                                         "attaching", "connected"}]
  /\ tries \in [Instances -> 0 .. Tries]
  /\ svc \in Gone \cup {"registering", "running"}
  /\ arg \in 1 .. NumInstances + 1 /\ joinStep \in DOMAIN Joining
  /\ serving \subseteq Instances
  /\ \A i \in Instances, k \in Kinds :
       {clientMap[i][k], serviceMap[i][k]} \subseteq 0 .. Latest(i, k)

(* Started in the documented order: a client that is connected and the     *)
(* daemon that serves its instance map the same three segments, whichever  *)
(* of them was restarted and how often.                                    *)
Paired ==
  inOrder =>
    \A i \in serving : client[i] = "connected" => clientMap[i] = serviceMap[i]

(* Started in the documented order: whatever a connected client finds in   *)
(* its response ring answers a request of its own process, however many    *)
(* clients of its instance were served, or left requests behind, before.   *)
(* (Request ids start at 1 in each process: an answer to an earlier one    *)
(* could not be told apart.)                                               *)
FreshResponses ==
  inOrder =>
    \A i \in Instances : client[i] = "connected" =>
      \A a \in In(answers, i, clientMap[i]["resp"]) : a.from = clientStarts[i]

(* In any order: a ring that the daemon serves or a client is connected    *)
(* through has been initialised (the SAFETY of Producer::new and           *)
(* Consumer::new).                                                         *)
RingsReady ==
  \A i \in Instances, k \in {"req", "resp"} :
    /\ i \in serving => Sized(i, k, serviceMap[i]) /\ Ready(i, k, serviceMap[i])
    /\ client[i] = "connected" =>
         Sized(i, k, clientMap[i]) /\ Ready(i, k, clientMap[i])

(* connect returns, or its process dies.                                   *)
ConnectReturns ==
  \A i \in Instances :
    (client[i] \in {"connecting", "attaching"})
      ~> (client[i] \in {"connected", "failed", "killed"})

(* Registration ends, whatever state the segments are in.                  *)
RegistrationEnds == (svc = "registering") ~> (svc # "registering")
-----------------------------------------------------------------------------
(* spsc.rs, SAFETY of attach: the memory is there.  Started in the         *)
(* documented order, a client never reads behind the end of a ring.        *)
AttachMapped ==
  inOrder =>
    \A i \in Instances : client[i] = "attaching" => Sized(i, "resp", clientMap[i])
=============================================================================
