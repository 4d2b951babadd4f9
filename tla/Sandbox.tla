------------------------------ MODULE Sandbox ------------------------------
(***************************************************************************)
(* The sandbox executor: execute_code and execute_shell run a program in   *)
(* an ephemeral container, through one Docker API call after the other     *)
(* (create, start, wait, kill after a timeout, logs, remove).  The daemon  *)
(* is external: a call can be refused, and its effect can happen although  *)
(* the answer is lost.  The program writes frames to its two streams while *)
(* the executor waits, and may never end.                                  *)
(***************************************************************************)
EXTENDS Integers, Sequences, SequencesExt

CONSTANTS Execs,        \* tool calls
          ExitCodes,    \* the codes a program ends with
          Frames,       \* frames a program writes: [type, payload]
          MaxFrames     \* bound on the frames of one program

ASSUME SandboxConstants == MaxFrames \in Nat /\ ExitCodes \subseteq Nat

VARIABLES container,    \* container[e]: what the daemon holds for call e
          exec,         \* exec[e]: where Execute is, and what it returns
          viewer        \* a call of read_container_logs, meanwhile

sandboxVars == <<container, exec, viewer>>

NoContainer == [state |-> "absent", code |-> -1, wrote |-> <<>>]

NoResult == [ok |-> FALSE, exit |-> -1, timedOut |-> FALSE, out |-> <<>>, err |-> <<>>]

SandboxInit ==
  /\ container = [e \in Execs |-> NoContainer]
  /\ exec = [e \in Execs |->
               [at |-> "new", result |-> NoResult, unanswered |-> FALSE, unremoved |-> FALSE]]
  /\ viewer = [at |-> "new"]

\* The log of a container as the daemon sends it: each frame is a header
\* (the stream, then the size) and its payload.
Multiplexed(frames) ==
  FlattenSeq([i \in DOMAIN frames |->
                <<frames[i].type, Len(frames[i].payload)>> \o frames[i].payload])

HeaderLen == 2

\* demuxDockerStream: what the frames of one stream carry.
RECURSIVE Demux(_, _)
Demux(data, stream) ==
  IF Len(data) < HeaderLen THEN <<>>
  ELSE LET rest == SubSeq(data, HeaderLen + 1, Len(data))
           size == IF data[2] > Len(rest) THEN Len(rest) ELSE data[2]
       IN (IF data[1] = stream THEN SubSeq(rest, 1, size) ELSE <<>>)
            \o Demux(SubSeq(rest, size + 1, Len(rest)), stream)

\* stripDockerLogHeaders: what the frames of both streams carry, or the input when that
\* is nothing; it has been consumed by then, but for a piece shorter than a header.
RECURSIVE WithoutHeaders(_, _)
WithoutHeaders(data, carried) ==
  IF Len(data) < HeaderLen THEN (IF carried = <<>> THEN data ELSE carried)
  ELSE LET rest == SubSeq(data, HeaderLen + 1, Len(data))
           size == IF data[2] > Len(rest) THEN Len(rest) ELSE data[2]
       IN WithoutHeaders(SubSeq(rest, size + 1, Len(rest)), carried \o SubSeq(rest, 1, size))

(***************************************************************************)
(* The program in the container.                                           *)
(***************************************************************************)
Write(e) ==
  /\ container[e].state = "running"
  /\ Len(container[e].wrote) < MaxFrames
  /\ \E f \in Frames :
       container' = [container EXCEPT ![e].wrote = Append(@, f)]
  /\ UNCHANGED exec

Exit(e) ==
  /\ container[e].state = "running"
  /\ \E c \in ExitCodes :
       container' = [container EXCEPT ![e].state = "exited", ![e].code = c]
  /\ UNCHANGED exec

(***************************************************************************)
(* Execute and ExecuteShell.                                               *)
(***************************************************************************)
GoTo(e, at) == exec' = [exec EXCEPT ![e].at = at]

\* An invalid language, code, command or timeout is refused at once; a create
\* call that is refused leaves nothing.
Refuse(e) ==
  /\ exec[e].at = "new"
  /\ GoTo(e, "done")
  /\ UNCHANGED container

\* The daemon creates the container.  When its answer does not arrive, its
\* status is not 201 or it cannot be decoded, Execute does not know the id.
CreateContainer(e) ==
  /\ exec[e].at = "new"
  /\ container' = [container EXCEPT ![e].state = "created"]
  /\ \/ GoTo(e, "start")
     \/ exec' = [exec EXCEPT ![e].at = "done", ![e].unanswered = TRUE]

\* A failed start, whether the container runs or not, ends in the deferred
\* remove.
StartContainer(e) ==
  /\ exec[e].at = "start"
  /\ \/ /\ container' = [container EXCEPT ![e].state = "running"]
        /\ GoTo(e, "wait") \/ GoTo(e, "remove")
     \/ UNCHANGED container /\ GoTo(e, "remove")

WaitAnswers(e) ==
  /\ exec[e].at = "wait" /\ container[e].state = "exited"
  /\ exec' = [exec EXCEPT ![e].at = "logs", ![e].result.exit = container[e].code]
  /\ UNCHANGED container

\* The deadline of the wait, or the caller's context, ends first: the program
\* may be running still or may just have ended.
WaitTimesOut(e) ==
  /\ exec[e].at = "wait"
  /\ exec' = [exec EXCEPT ![e].at = "kill", ![e].result.timedOut = TRUE]
  /\ UNCHANGED container

WaitFails(e) ==
  /\ exec[e].at = "wait"
  /\ GoTo(e, "remove")
  /\ UNCHANGED container

\* A failed kill is only logged; the program then runs on.
KillContainer(e) ==
  /\ exec[e].at = "kill"
  /\ \/ container' = [container EXCEPT ![e].state = IF @ = "running" THEN "killed" ELSE @]
     \/ UNCHANGED container
  /\ GoTo(e, "logs")

GetLogs(e) ==
  /\ exec[e].at = "logs"
  /\ LET raw == Multiplexed(container[e].wrote)
     IN exec' = [exec EXCEPT ![e].at = "remove", ![e].result.ok = TRUE,
                             ![e].result.out = Demux(raw, 1), ![e].result.err = Demux(raw, 2)]
  /\ UNCHANGED container

LogsFailAndReturn(e) ==
  /\ exec[e].at = "logs"
  /\ GoTo(e, "done")
  /\ UNCHANGED container

LogsFail(e) ==
  /\ exec[e].at = "logs"
  /\ GoTo(e, "remove")
  /\ UNCHANGED container

\* The deferred remove, forced, with a context of its own.
RemoveContainer(e) ==
  /\ exec[e].at = "remove"
  /\ \/ /\ container' = [container EXCEPT ![e].state = "absent"]
        /\ GoTo(e, "done")
     \/ /\ UNCHANGED container
        /\ exec' = [exec EXCEPT ![e].at = "done", ![e].unremoved = TRUE]

(***************************************************************************)
(* read_container_logs, on any container of the daemon.                    *)
(***************************************************************************)
\* The list of the containers gives the id of the one that is named; without it, or with
\* an error, the call fails.
FindContainer(e) ==
  /\ viewer.at = "new" /\ container[e].state # "absent"
  /\ viewer' = [at |-> "found", of |-> e]
  /\ UNCHANGED <<container, exec>>

\* The second request: by now the container may be gone, and the call fails.  (What the
\* programs write here is less than the tail that is asked for.)
ReadLogs ==
  /\ viewer.at = "found"
  /\ viewer' = IF container[viewer.of].state = "absent" THEN [at |-> "failed"]
               ELSE [at |-> "read", of |-> viewer.of,
                     logs |-> WithoutHeaders(Multiplexed(container[viewer.of].wrote), <<>>)]
  /\ UNCHANGED <<container, exec>>

SandboxNext ==
  \/ /\ \E e \in Execs :
          \/ Write(e) \/ Exit(e)
          \/ Refuse(e) \/ CreateContainer(e) \/ StartContainer(e)
          \/ WaitAnswers(e) \/ WaitTimesOut(e) \/ WaitFails(e)
          \/ KillContainer(e) \/ GetLogs(e) \/ LogsFail(e) \/ RemoveContainer(e)
     /\ UNCHANGED viewer
  \/ \E e \in Execs : FindContainer(e)
  \/ ReadLogs

\* Type invariant of the calls and their containers.
SandboxTypeOK ==
  /\ viewer.at \in {"new", "found", "read", "failed"}
  /\ \A e \in Execs :
       /\ container[e].state \in {"absent", "created", "running", "exited", "killed"}
       /\ container[e].code \in ExitCodes \union {-1}
       /\ Len(container[e].wrote) <= MaxFrames
       /\ exec[e].at \in {"new", "start", "wait", "kill", "logs", "remove", "done"}
       /\ exec[e].result.exit \in ExitCodes \union {-1}

Carried(frames, stream) ==
  FlattenSeq([i \in DOMAIN frames |->
                IF frames[i].type = stream THEN frames[i].payload ELSE <<>>])

\* A call that has returned leaves a container behind only when the daemon did
\* not answer the create call or did not carry out the remove
\* (executeInContainer, "always removed after execution, even on error
\* paths").  What it reports is what happened: without timed_out the program
\* ended by itself, with the code and the whole of both streams; with timed_out
\* there is no exit code, and the streams are those of the program up to some
\* moment, whatever it writes afterwards.  So are the logs read_container_logs
\* returns, both streams in the order they were written and without a header.
ContainersAreAccountedFor ==
  /\ viewer.at = "read" =>
       LET wrote == container[viewer.of].wrote
       IN \E n \in 0..Len(wrote) :
            viewer.logs = FlattenSeq([i \in 1..n |-> wrote[i].payload])
  /\ \A e \in Execs :
       LET x == exec[e]
           c == container[e]
       IN /\ x.at = "done" /\ c.state # "absent" => x.unanswered \/ x.unremoved
          /\ x.result.ok /\ ~x.result.timedOut =>
               /\ x.result.exit = c.code /\ c.code \in ExitCodes
               /\ x.result.out = Carried(c.wrote, 1)
               /\ x.result.err = Carried(c.wrote, 2)
          /\ x.result.ok /\ x.result.timedOut =>
               /\ x.result.exit = -1
               /\ \E n \in 0..Len(c.wrote) :
                    /\ x.result.out = Carried(SubSeq(c.wrote, 1, n), 1)
                    /\ x.result.err = Carried(SubSeq(c.wrote, 1, n), 2)
=============================================================================
