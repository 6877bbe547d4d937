---------------------------- MODULE ServiceLifecycle ----------------------------
(* The approval service from its start to its end: the command                  *)
(* (cmd/approval-service.go), the group of its server, its watcher and its      *)
(* processor (approvalservice.go), the server's own group (server.go) and the   *)
(* watcher of access requests (accessrequest.go).  What the processor makes of  *)
(* the events is in ReleaseService; here it takes them or is gone.              *)
EXTENDS Naturals, FiniteSets

CONSTANTS Request,     \* webhook deliveries
          MaxReviews   \* bound on the reviews that Teleport reports

Settings == {"teleport", "github", "secret", "app", "listen"}

VARIABLES settings,    \* what the configuration and the flags give
          stage,       \* where the command is
          exit,        \* how it ended: "none", "ok", "error"
          signalled,   \* the signal has come: the command's context is done
          firstErr,    \* the first error that the group of the service got
          serve, stop, \* the server's two goroutines
          serverErr,   \* the first error that the server's group got
          watcher, stream,       \* the watcher; the stream that it reads
          processor,
          delivery,    \* delivery[r]: the webhook handler of delivery r
          reviews      \* reviews that Teleport has reported

lifeVars == <<settings, stage, exit, signalled, firstErr, serve, stop, serverErr,
              watcher, stream, processor, delivery, reviews>>

serverVars == <<serve, stop, serverErr>>
watcherVars == <<watcher, stream, reviews>>
startVars == <<settings, stage, exit>>

LifeInit ==
  /\ settings = {}
  /\ stage = "loading" /\ exit = "none"
  /\ signalled = FALSE /\ firstErr = "none"
  /\ serve = "off" /\ stop = "off" /\ serverErr = "none"
  /\ watcher = "off" /\ stream = "off" /\ reviews = 0
  /\ processor = "off"
  /\ delivery = [r \in Request |-> "none"]

(* A mistake: the last error is kept.                                           *)
Latest(kept, err) == err

(* A group keeps the first error that one of its goroutines returns.            *)
First(kept, err) == IF kept = "none" THEN err ELSE kept

-------------------------------------------------------------------------------
(* The command up to Run.  Any step of it may end it with an error.             *)

(* Validate: the listening address and the credentials of the app, which        *)
(* GitHubSource.Validate leaves out, are not asked for.                         *)
Valid(given) == {"teleport", "github", "secret"} \subseteq given

(* loadConfig: the file, overridden by flags, if the result is valid.           *)
LoadConfig ==
  /\ stage = "loading"
  /\ \E inFile \in SUBSET Settings, flags \in SUBSET {"secret", "app"} :
       settings' = inFile \cup flags
  /\ Valid(settings')
  /\ stage' = "initializing"
  /\ UNCHANGED <<exit, signalled, firstErr, serverVars, watcherVars, processor, delivery>>

(* NewFromConfig: the app's key gets a token from GitHub, the server an address.*)
Initialize ==
  /\ stage = "initializing"
  /\ {"app", "listen"} \subseteq settings
  /\ stage' = "setup"
  /\ UNCHANGED <<settings, exit, signalled, firstErr, serverVars, watcherVars, processor, delivery>>

(* Setup listens, and then opens the stream of access requests.                 *)
Setup ==
  /\ stage = "setup"
  /\ stage' = "ready"
  /\ stream' = "open"
  /\ UNCHANGED <<settings, exit, signalled, firstErr, serverVars, watcher, reviews, processor, delivery>>

StartFails ==
  /\ stage \in {"loading", "initializing", "setup"}
  /\ stage' = "ended" /\ exit' = "error"
  /\ UNCHANGED <<settings, signalled, firstErr, serverVars, watcherVars, processor, delivery>>

Run ==
  /\ stage = "ready"
  /\ stage' = "running"
  /\ serve' = "serving" /\ stop' = "waiting"
  /\ watcher' = "watching"
  /\ processor' = "running"
  /\ UNCHANGED <<settings, exit, signalled, firstErr, serverErr, stream, reviews, delivery>>

Signal ==
  /\ stage # "ended" /\ ~signalled
  /\ signalled' = TRUE
  /\ UNCHANGED <<startVars, firstErr, serverVars, watcherVars, processor, delivery>>

(* A mistake: an error does not end the group's context.                        *)
OnlySignalled == signalled

(* The context of the group, and that of the server's group within it.          *)
GroupDone == signalled \/ firstErr # "none"
ServerDone == GroupDone \/ serverErr # "none"

-------------------------------------------------------------------------------
(* The server.  A handler sends its event to the processor and heeds nothing    *)
(* else; the server may be stopping meanwhile.                                  *)
Deliver(r) ==
  /\ serve = "serving" /\ delivery[r] = "none"
  /\ delivery' = [delivery EXCEPT ![r] = "sending"]
  /\ UNCHANGED <<startVars, signalled, firstErr, serverVars, watcherVars, processor>>

(* A delivery that is not signed, not readable or not of this kind is answered  *)
(* at once; one that the processor takes is answered then.                      *)
Refused(r) ==
  /\ stage = "running" /\ delivery[r] = "sending"
  /\ delivery' = [delivery EXCEPT ![r] = "refused"]
  /\ UNCHANGED <<startVars, signalled, firstErr, serverVars, watcherVars, processor>>

Answer(r) ==
  /\ delivery[r] = "sending" /\ processor = "running"
  /\ delivery' = [delivery EXCEPT ![r] = "answered"]
  /\ UNCHANGED <<startVars, signalled, firstErr, serverVars, watcherVars, processor>>

ServeFails ==
  /\ serve = "serving"
  /\ serve' = "returned" /\ serverErr' = First(serverErr, "other")
  /\ UNCHANGED <<startVars, signalled, firstErr, stop, watcherVars, processor, delivery>>

(* Shutdown makes Serve return ErrServerClosed at once, ...                     *)
BeginShutdown ==
  /\ stop = "waiting" /\ ServerDone
  /\ stop' = "draining"
  /\ UNCHANGED <<startVars, signalled, firstErr, serve, serverErr, watcherVars, processor, delivery>>

ServerClosed ==
  /\ serve = "serving" /\ stop # "waiting"
  /\ serve' = "returned" /\ serverErr' = First(serverErr, "other")
  /\ UNCHANGED <<startVars, signalled, firstErr, stop, watcherVars, processor, delivery>>

(* ... and itself waits for the handlers, for at most thirty seconds.  Either   *)
(* way the error is, or is joined to, that of the context.                      *)
EndShutdown ==
  /\ stop = "draining"
  /\ stop' = "returned" /\ serverErr' = First(serverErr, "canceled")
  /\ UNCHANGED <<startVars, signalled, firstErr, serve, watcherVars, processor, delivery>>

ServerReturns ==
  /\ serve = "returned" /\ stop = "returned"
  /\ stop' = "reported"
  /\ firstErr' = First(firstErr, serverErr)
  /\ UNCHANGED <<startVars, signalled, serve, serverErr, watcherVars, processor, delivery>>

-------------------------------------------------------------------------------
(* The stream may break or end by itself, and breaks with the command's         *)
(* context; the context of the group does not reach it.                         *)
StreamEnds ==
  /\ stream = "open"
  /\ stream' \in {"failed", "finished"}
  /\ UNCHANGED <<startVars, signalled, firstErr, serverVars, watcher, reviews, processor, delivery>>

StreamCancelled ==
  /\ stream = "open" /\ signalled
  /\ stream' \in {"cancelled", "failed"}
  /\ UNCHANGED <<startVars, signalled, firstErr, serverVars, watcher, reviews, processor, delivery>>

(* handleEvent passes a review on to the processor, whatever the context.       *)
Review ==
  /\ watcher = "watching" /\ stream = "open" /\ reviews < MaxReviews
  /\ watcher' = "sending"
  /\ reviews' = reviews + 1
  /\ UNCHANGED <<startVars, signalled, firstErr, serverVars, stream, processor, delivery>>

ReviewTaken ==
  /\ watcher = "sending" /\ processor = "running"
  /\ watcher' = "watching"
  /\ UNCHANGED <<startVars, signalled, firstErr, serverVars, stream, reviews, processor, delivery>>

(* The watcher only returns when its stream is done: without an error if the    *)
(* stream ended without one.                                                    *)
WatcherReturns ==
  /\ watcher = "watching" /\ stream # "open"
  /\ watcher' = "returned"
  /\ firstErr' = CASE stream = "failed"    -> First(firstErr, "other")
                   [] stream = "cancelled" -> First(firstErr, "canceled")
                   [] stream = "finished"  -> firstErr
  /\ UNCHANGED <<startVars, signalled, serverVars, stream, reviews, processor, delivery>>

ProcessorReturns ==
  /\ processor = "running" /\ GroupDone
  /\ processor' = "returned"
  /\ firstErr' = First(firstErr, "canceled")
  /\ UNCHANGED <<startVars, signalled, serverVars, watcherVars, delivery>>

(* Wait returns when all three have; a cancelled context is no error.           *)
End ==
  /\ stage = "running"
  /\ stop = "reported" /\ watcher = "returned" /\ processor = "returned"
  /\ stage' = "ended"
  /\ exit' = IF firstErr \in {"none", "canceled"} THEN "ok" ELSE "error"
  /\ UNCHANGED <<settings, signalled, firstErr, serverVars, watcherVars, processor, delivery>>

-------------------------------------------------------------------------------
(* What the service does once it can ...                                        *)
ServiceStep ==
  \/ Initialize \/ Setup \/ StartFails \/ Run
  \/ \E r \in Request : Refused(r) \/ Answer(r)
  \/ BeginShutdown \/ ServerClosed \/ EndShutdown \/ ServerReturns
  \/ StreamCancelled \/ ReviewTaken \/ WatcherReturns \/ ProcessorReturns \/ End

(* ... and what others do.                                                      *)
OthersStep ==
  \/ LoadConfig \/ Signal \/ ServeFails \/ StreamEnds \/ Review
  \/ \E r \in Request : Deliver(r)

LifeNext == ServiceStep \/ OthersStep

LifeSpec == LifeInit /\ [][LifeNext]_lifeVars /\ WF_lifeVars(ServiceStep)

-------------------------------------------------------------------------------
(* The service ends without an error only when it was told to end: whichever    *)
(* goroutine fails and in whichever order the others notice, the error that     *)
(* stopped it is not taken for a cancelled context (approval-service.go,        *)
(* server.go).                                                                  *)
SuccessOnlyOnSignal == exit = "ok" => signalled

(* The watcher waits to hand over a review, and nobody is left to take it.      *)
Stranded == watcher = "sending" /\ processor = "returned"

(* The watcher waits for a stream that the failure of the others does not end.  *)
LeftWatching == watcher = "watching" /\ stream = "open"

(* Told to end, the service ends, unless a review comes at the wrong moment;    *)
(* and with one of its parts failing, so do the others, unless the watcher      *)
(* waits for its stream (approvalservice.go: "Block until an event source has a *)
(* fatal error").                                                               *)
StopsUnlessHeld ==
  /\ (signalled /\ stage # "loading") ~> (stage = "ended" \/ Stranded)
  /\ (firstErr # "none") ~> (stage = "ended" \/ Stranded \/ LeftWatching)

(* Told to end, the service ends (accessrequest.go: "It will block until the    *)
(* context is cancelled").                                                      *)
StopsOnSignal == (signalled /\ stage # "loading") ~> (stage = "ended")

===============================================================================
