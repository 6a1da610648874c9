---------------------------- MODULE UnixListener ----------------------------
(***************************************************************************)
(* class UnixDomainSocketListener of listeners/socket.py and the server    *)
(* behind it, UnixSocketListener of connections/servers.py: a TrioListener *)
(* whose runs put a socket at a path of the file system, which another     *)
(* process may use for a server of its own.                                *)
(*                                                                         *)
(* A socket file is created under a temporary name and renamed to its      *)
(* path, whatever socket is there.  A server that stops closes its socket, *)
(* tries to connect to the path, and if nobody answers and the file is its *)
(* own it unlinks the path.  These three calls of the operating system are *)
(* made in one go as far as the Trio tasks are concerned, but the other    *)
(* process may act between any two of them.                                *)
(***************************************************************************)
EXTENDS TrioListener

CONSTANT Other   \* the server of the other process, which uses the same code

ASSUME ServerAssumption == Other \notin Runs \cup {None}

Servers == Runs \cup {Other}

VARIABLES
    sock,     \* where each server is: its socket, and the steps of _close()
    file,     \* the server whose socket file is at the path, or None
    latest,   \* the last server to put its file there, if it still listens
    mistaken, \* the servers that will unlink a file that was never their own
    robbed,   \* whether the file of `latest' was unlinked right after os.stat()
    forgotten \* whether the file is that of a run that had no time to clean up

fileVars == <<file, latest, mistaken, robbed, forgotten>>
allVars == <<vars, sock, fileVars>>

UnixInit ==
    /\ Init
    /\ sock = [s \in Servers |-> "none"]
    /\ file = None
    /\ latest = None
    /\ mistaken = {}
    /\ robbed = FALSE
    /\ forgotten = FALSE

Goes(s, label) == sock' = [sock EXCEPT ![s] = label]

(***************************************************************************)
(* _create() and _close() of UnixSocketListener.  A failure of _create()   *)
(* cleans up after itself and leaves everything as it was.                 *)
(***************************************************************************)

Publish(s) ==
    /\ sock[s] = "none"
    /\ Goes(s, "listening")
    /\ file' = s
    /\ latest' = s
    /\ robbed' = FALSE
    /\ forgotten' = FALSE
    /\ UNCHANGED <<vars, mistaken>>

StopsListening(s) ==
    /\ latest' = IF latest = s THEN None ELSE latest
    /\ robbed' = (robbed /\ latest # s)

(* The wrapped listener is closed, which passes a checkpoint. *)
ClosesSocket(s) ==
    /\ sock[s] = "listening"
    /\ Goes(s, "closed")
    /\ StopsListening(s)
    /\ UNCHANGED <<vars, file, mistaken, forgotten>>

(* fail_after(1): the checkpoint is reached too late, since the event loop *)
(* was busy with something else.  aclose() raises and _close() is skipped. *)
MissesDeadline(s) ==
    /\ "deadline" \in Failures
    /\ sock[s] = "closed"
    /\ Goes(s, "late")
    /\ forgotten' = (forgotten \/ file = s)
    /\ UNCHANGED <<vars, file, latest, mistaken, robbed>>

(* A connection to the path is refused by the file of a socket that nobody *)
(* listens to any more.                                                    *)
Refused(f) == f # None /\ sock[f] # "listening"

Probe(s) ==
    /\ sock[s] = "closed"
    /\ Goes(s, IF Refused(file) THEN "refused" ELSE "over")
    /\ UNCHANGED <<vars, fileVars>>

(* Mutants: the inodes are not compared; the file is never its own. *)
IsOwn_Any(s) == TRUE
IsOwn_Never(s) == FALSE

IsOwn(s) == file = s

Check(s) ==
    /\ sock[s] = "refused"
    /\ Goes(s, IF file # None /\ IsOwn(s) THEN "same" ELSE "over")
    /\ mistaken' = IF sock'[s] = "same" /\ file # s THEN mistaken \cup {s} ELSE mistaken
    /\ UNCHANGED <<vars, file, latest, robbed, forgotten>>

Unlink(s) ==
    /\ sock[s] = "same"
    /\ Goes(s, "over")
    /\ file' = None
    /\ robbed' = (robbed \/ (latest # None /\ file = latest /\ s \notin mistaken))
    /\ mistaken' = mistaken \ {s}
    /\ forgotten' = FALSE
    /\ UNCHANGED <<vars, latest>>

Cleanup(s) == Probe(s) \/ Check(s) \/ Unlink(s)

(***************************************************************************)
(* The runs of the listener                                                *)
(***************************************************************************)

(* A run that cleans up keeps the event loop busy. *)
LoopBlocked == \E r \in Runs : sock[r] \in {"refused", "same"}

Serving == {"starting", "running"}

(* _run() has started when its socket listens, and it returns or raises    *)
(* after it has cleaned up or before it has anything to clean up.  The     *)
(* error of a missed deadline is one that _run() raises, cancelled or not. *)
ListenerFollows ==
    /\ ~LoopBlocked
    /\ \A r \in Runs :
        /\ run[r] = "starting" /\ run'[r] = "running" => sock[r] = "listening"
        /\ run[r] \in Serving /\ run'[r] \notin Serving => sock[r] \in {"none", "over", "late"}
        /\ run[r] \in Serving /\ run'[r] \notin Serving /\ sock[r] = "late" => r \in leftover'
    /\ sock' = [s \in Servers |->
          IF s \in Runs /\ run[s] \in Serving /\ run'[s] \notin Serving THEN "none" ELSE sock[s]]
    /\ UNCHANGED fileVars

UnixRunStep(r) == RunStep(r) /\ ListenerFollows
UnixTaskStep(t) == TaskStep(t) /\ ListenerFollows

(* The steps that a run takes inside _run(): the socket is created by a    *)
(* thread, which a busy event loop does not keep from its work.            *)
ServerStep(r) ==
    /\ run[r] \in Serving
    /\ \/ run[r] = "starting" /\ Publish(r)
       \/ ~LoopBlocked /\ (ClosesSocket(r) \/ MissesDeadline(r) \/ Probe(r))
       \/ Check(r) \/ Unlink(r)

(***************************************************************************)
(* The other process does the same with a server of its own, crashes at    *)
(* any time (or misses the deadline, to the same effect), leaving its file *)
(* where it is, and is started again.                                      *)
(***************************************************************************)

OtherStops ==
    /\ sock[Other] # "none"
    /\ Goes(Other, "none")
    /\ StopsListening(Other)
    /\ mistaken' = mistaken \ {Other}
    /\ UNCHANGED <<vars, file, forgotten>>

OtherStep == Publish(Other) \/ ClosesSocket(Other) \/ Cleanup(Other) \/ OtherStops

UnixNext ==
    \/ \E r \in Runs : UnixRunStep(r) \/ ServerStep(r)
    \/ \E t \in Tasks : UnixTaskStep(t)
    \/ OtherStep

(* Trio and its threads go on with what can go on; a run whose scope was   *)
(* cancelled closes its socket.                                            *)
UnixSpec ==
    /\ UnixInit
    /\ [][UnixNext]_allVars
    /\ \A r \in Runs :
        /\ WF_allVars((RunMustStep(r) \/ sock[r] \in {"over", "late"}) /\ UnixRunStep(r))
        /\ WF_allVars((sock[r] = "listening" => r \in doomed) /\ ServerStep(r))
    /\ \A t \in Tasks : WF_allVars(TaskMustStep(t) /\ UnixTaskStep(t))

-----------------------------------------------------------------------------
(* However the servers of two processes come and go at one path, the one   *)
(* that was started last can be reached there as long as it listens:       *)
(* UnixSocketListener._close() unlinks nothing but its own file.  There is *)
(* one way to lose it, in the moment between os.stat() and os.unlink().    *)
LatestIsReachable ==
    latest # None => file = latest \/ robbed

(* "unlinks the associated socket after the listener is closed"            *)
(* (UnixSocketListener): no run leaves a stale file behind, unless its     *)
(* deadline had passed before it came to clean up.                         *)
NoStaleFile ==
    \A r \in Runs : file = r => forgotten \/ sock[r] \notin {"none", "over", "late"}
=============================================================================
