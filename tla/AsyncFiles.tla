--------------------------- MODULE AsyncFiles ---------------------------
(***************************************************************************)
(* Requests for files that may have to be downloaded (async_handler.cpp).  *)
(* A client (a sprite, the music, a scene) binds a handler to the request  *)
(* of a file, keeps the binding in its request_id, and starts the request. *)
(* The handler is called once the file is there, unless the client has     *)
(* dropped its binding or bound another file in the meantime.              *)
(*                                                                         *)
(* The handlers of a request are called one by one.  While one of them runs *)
(* the clients may drop bindings and ask for other files, as OnBgmReady of *)
(* Game_System does when the music turns out to be a link; a file that is  *)
(* there already is answered before the handler goes on.  No handler asks  *)
(* for a file whose handlers are being called.                             *)
(*                                                                         *)
(* On the web the files are downloaded (Emscripten), else they are there   *)
(* at once.  The downloads are external.                                   *)
(***************************************************************************)
EXTENDS Integers, Sequences, SequencesExt

CONSTANTS Files, Clients,
          MaxBinds    \* bound: next_id

ASSUME AsyncFilesAssumption == MaxBinds \in Nat /\ 0 \notin Clients

VARIABLES
  web,        \* whether files are downloaded
  state,      \* of each request; "none" if it is not registered
  important,  \* the requests with the important flag
  listeners,  \* of each request: the bindings, in order
  requestId,  \* the binding each client holds, or 0
  nextId,     \* next_id
  walk,       \* the requests in CallListeners, the innermost last
  passed,     \* how many of its listeners each of them has looked at
  inHandler,  \* the innermost one is in a handler
  flying,     \* downloads under way: a file and the serial of its request
  serial,     \* not in the code: the serial of each request, 0 before any
  owner,      \* not in the code: the client that made each binding, or 0
  calls,      \* not in the code: the answers each binding's handler got
  orphans,    \* not in the code: the bindings whose request was cleared
  strayed     \* not in the code: a download has outlived its request

walkVars  == <<walk, passed, inHandler>>
filesVars == <<web, state, important, listeners, requestId, nextId, walkVars,
               flying, serial, owner, calls, orphans, strayed>>

None     == 0
Bindings == 1 .. MaxBinds
IsReady(f) == state[f] \in {"success", "failure"}

-----------------------------------------------------------------------------

FilesInit ==
  /\ web \in BOOLEAN
  /\ state = [f \in Files |-> "none"]
  /\ important = {}
  /\ listeners = [f \in Files |-> <<>>]
  /\ requestId = [c \in Clients |-> None]
  /\ walk = <<>> /\ passed = [f \in Files |-> 0] /\ inHandler = FALSE
  /\ owner = [b \in Bindings |-> None]
  /\ nextId = 1 /\ flying = {}
  /\ serial = [f \in Files |-> 0]
  /\ calls = [b \in Bindings |-> <<>>] /\ orphans = {} /\ strayed = FALSE

(* The game thread is in no CallListeners, or in one of its handlers.      *)
Idle        == walk = <<>>
ClientsRun  == Idle \/ inHandler
BeingWalked(f) == f \in ToSet(walk)

FailsPending(ok) == IF ok THEN "success" ELSE "pending"  \* mutant of Done
Done(ok) == IF ok THEN "success" ELSE "failure"

(* DownloadDone: a finished request keeps its result, and CallListeners    *)
(* begins, given the listeners.                                            *)
AsksAgain(f, success) == success                   \* mutant of Result
Result(f, success) == IF IsReady(f) THEN state[f] = "success" ELSE success

DownloadDone(f, ls, success) ==
  /\ state' = [state EXCEPT ![f] = Done(Result(f, success))]
  /\ listeners' = [listeners EXCEPT ![f] = ls]
  /\ walk' = Append(walk, f)
  /\ inHandler' = FALSE
  /\ UNCHANGED passed

(* CallListeners looks at the next listener, the n-th: its handler is      *)
(* called if its binding b has not expired.                                *)
Held(ids) == {ids[c] : c \in Clients} \ {None}

CalledDropped(n, b) == TRUE                        \* mutant of Called
CalledFirst(n, b)   == n = 1 /\ b \in Held(requestId)   \* mutant of Called
Called(n, b)        == b \in Held(requestId)

CallNext ==
  /\ walk # <<>>
  /\ LET f == Last(walk)
         n == passed[f] + 1
         b == listeners[f][n]
     IN /\ n <= Len(listeners[f])
        /\ passed' = [passed EXCEPT ![f] = n]
        /\ inHandler' = Called(n, b)
        /\ calls' = IF Called(n, b)
                      THEN [calls EXCEPT ![b] = Append(@, state[f] = "success")]
                      ELSE calls
  /\ UNCHANGED <<web, state, important, listeners, requestId, nextId, walk,
                 flying, serial, owner, orphans, strayed>>

(* listeners.clear(), and back to the handler that asked for the file.     *)
KeepsListeners(ls) == ls                           \* mutant of Cleared
Cleared(ls) == <<>>

CallsEnd ==
  /\ walk # <<>>
  /\ LET f == Last(walk)
     IN /\ passed[f] = Len(listeners[f])
        /\ passed' = [passed EXCEPT ![f] = 0]
        /\ listeners' = [listeners EXCEPT ![f] = Cleared(@)]
  /\ walk' = Front(walk)
  /\ inHandler' = (Len(walk) > 1)
  /\ UNCHANGED <<web, state, important, requestId, nextId, flying, serial, owner,
                 calls, orphans, strayed>>

-----------------------------------------------------------------------------

(* RequestFile, SetImportantFile, Bind and Start, as every client does it. *)
(* Binding drops the client's former binding.                              *)
StartsDownload(f) == web /\ state[f] = "none"

Request(c, f) ==
  LET ls == Append(listeners[f], nextId) IN
  /\ nextId \in Bindings
  /\ ClientsRun /\ ~BeingWalked(f)
  /\ requestId' = [requestId EXCEPT ![c] = nextId]
  /\ owner' = [owner EXCEPT ![nextId] = c]
  /\ nextId' = nextId + 1
  /\ UNCHANGED <<web, calls, orphans, strayed>>
  /\ \/ important' = important \cup {f}
     \/ UNCHANGED important
  /\ IF StartsDownload(f)
       THEN /\ state' = [state EXCEPT ![f] = "pending"]
            /\ listeners' = [listeners EXCEPT ![f] = ls]
            /\ serial' = [serial EXCEPT ![f] = @ + 1]
            /\ flying' = flying \cup {[f |-> f, n |-> serial[f] + 1]}
            /\ UNCHANGED walkVars
       ELSE /\ UNCHANGED <<serial, flying>>
            /\ IF state[f] = "pending"
                 THEN /\ listeners' = [listeners EXCEPT ![f] = ls]
                      /\ UNCHANGED <<state, walkVars>>
                 ELSE DownloadDone(f, ls, TRUE)

(* The client is destroyed, or gives its binding up.                       *)
Drop(c) == /\ ClientsRun /\ requestId[c] # None
           /\ requestId' = [requestId EXCEPT ![c] = None]
           /\ UNCHANGED <<web, state, important, listeners, nextId, walkVars,
                          flying, serial, owner, calls, orphans, strayed>>

(* download_success and download_failure. *)
Download == Idle /\ \E d \in flying :
  /\ state[d.f] = "pending" /\ d.n = serial[d.f]
  /\ \E success \in BOOLEAN :
       DownloadDone(d.f, listeners[d.f], success)
  /\ flying' = flying \ {d}
  /\ UNCHANGED <<web, important, requestId, nextId, serial, owner, calls, orphans,
                 strayed>>

(* ClearRequests, when the language is changed.                            *)
ClearRequests ==
  /\ Idle
  /\ \E f \in Files : state[f] # "none"
  /\ state' = [f \in Files |-> "none"]
  /\ listeners' = [f \in Files |-> <<>>]
  /\ important' = {}
  /\ orphans' = orphans \cup UNION {ToSet(listeners[f]) : f \in Files}
  /\ UNCHANGED <<web, requestId, nextId, walkVars, flying, serial, owner, calls,
                 strayed>>

(* A download whose request was cleared is handed the address of a request *)
(* that no longer exists: nothing may come of it, or a request that has    *)
(* taken its place is finished.                                            *)
StrayDownload == Idle /\ \E d \in flying :
  /\ ~(state[d.f] = "pending" /\ d.n = serial[d.f])
  /\ strayed' = TRUE
  /\ flying' = flying \ {d}
  /\ \/ UNCHANGED <<state, listeners, walkVars>>
     \/ \E f \in Files, success \in BOOLEAN :
          state[f] # "none" /\ DownloadDone(f, listeners[f], success)
  /\ UNCHANGED <<web, important, requestId, nextId, serial, owner, calls,
                 orphans>>

-----------------------------------------------------------------------------

FilesNext ==
  \/ \E c \in Clients : Drop(c) \/ \E f \in Files : Request(c, f)
  \/ CallNext \/ CallsEnd
  \/ Download \/ ClearRequests \/ StrayDownload

FilesSpec == FilesInit /\ [][FilesNext]_filesVars

(* Every download ends, one way or the other, and the handlers return.     *)
FairFilesSpec == /\ FilesSpec
                 /\ WF_filesVars(Download) /\ WF_filesVars(StrayDownload)
                 /\ WF_filesVars(CallNext \/ CallsEnd)

-----------------------------------------------------------------------------
(* Properties *)

FilesTypeOK ==
  /\ state \in [Files -> {"none", "pending", "success", "failure"}]
  /\ important \subseteq Files
  /\ requestId \in [Clients -> Bindings \cup {None}]
  /\ nextId \in 1 .. MaxBinds + 1
  /\ walk \in Seq(Files) /\ passed \in [Files -> Nat] /\ inHandler \in BOOLEAN
  /\ owner \in [Bindings -> Clients \cup {None}]
  /\ \A f \in Files :
       listeners[f] # <<>> => state[f] = "pending" \/ BeingWalked(f)
  /\ strayed \in BOOLEAN

(* "The event handler is only invoked once (one-shot)": a handler is not   *)
(* called again by a second answer, a later request of the file or a       *)
(* download that has outlived its request.                                 *)
OneShot == \A b \in Bindings : Len(calls[b]) <= 1

(* And handlers wait for pending files only, or are being called: none is  *)
(* left behind to be called by the next answer.                            *)
CalledOnce == FilesTypeOK /\ OneShot

(* A client hears of the last file it asked for and of no older one: when  *)
(* files arrive out of order, or a handler called before it has made the   *)
(* client ask for something else, no old picture or music replaces the new. *)
NewestWins ==
  [][\A b \in Bindings : calls'[b] # calls[b] =>
       /\ owner[b] \in Clients
       /\ \A b2 \in Bindings : owner[b2] = owner[b] => b2 <= b]_filesVars

(* All clients that ask for a file get the same answer, whether they ask   *)
(* before or after it has arrived, until the requests are cleared.         *)
SameAnswer ==
  [][\A f \in Files : IsReady(f) /\ IsReady(f)' => state'[f] = state[f]]_filesVars

(* A client that asks and holds on is answered, unless the requests were   *)
(* cleared: it does not wait for a file forever.                           *)
Answered ==
  \A c \in Clients : \A b \in Bindings :
    requestId[c] = b ~> \/ requestId[c] # b
                        \/ calls[b] # <<>>
                        \/ b \in orphans

(* The game does not wait forever for an important file: what holds        *)
(* IsImportantFilePending up goes away.                                    *)
ImportantArrive ==
  (\E f \in important : ~IsReady(f)) ~> (\A f \in important : IsReady(f))
=============================================================================
