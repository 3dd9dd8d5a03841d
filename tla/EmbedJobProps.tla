--------------------------- MODULE EmbedJobProps ----------------------------
(* What the jobs of EmbedJob.tla promise.                                  *)
EXTENDS EmbedJob

\* The goroutines a job started and that have not exited: a job that is done has
\* started them only if it fed them, and closed the work queue.
Alive(j) ==
    /\ phase[j] \in Pool \/ (phase[j] = "done" /\ workClosed[j])
    /\ processor[j] = "running" \/ ~Exited(j)

\* While a job runs, no goroutine of another job of the workspace is left: the
\* claim of the workspace outlives the goroutines it protects.  Only a cancelled
\* job returns before its workers and its processor have.
JobsDoNotOverlap ==
    \A j, k \in Jobs : phase[j] \in Running /\ Alive(k) => j = k \/ cancelled[k]

\* A file the walk skips as already indexed has had its present content stored by
\* some job: no failure, edit or job in between makes the walk pass over a content
\* that was never embedded.  The job may have been one for another collection
\* (interfaces.go:23, "FileIndexEntry mapeia um arquivo físico para seus vetores no
\* Chromem"): file_index does not know collections.
SkippedWereStored ==
    [][\A j \in Jobs, f \in Files :
         outcome[j][f] = "none" /\ outcome'[j][f] = "skipped"
           => \E c \in Collections : <<f, disk[f]>> \in store[c]]_vars

Failed(j) == {f \in Files : outcome[j][f] = "failed"}

\* What a completed job reports is all there is: no result of a file it picked is
\* left in a queue or with a worker unless it was cancelled, and if a file failed
\* it reports errors, although feeder and processor count them without a lock.
CompletedMeansReported ==
    \A j \in Jobs : phase[j] = "done" =>
        /\ cancelled[j] \/ \A f \in Files : outcome[j][f] # "pending"
        /\ Failed(j) # {} => errors[j] > 0

\* Every job that gets the workspace returns and releases it: no cycle of full
\* queues, exited processor and waiting feeder holds it.  What can stop it is a
\* long file, on which chunkContent does not return, or its cancellation, after
\* which the processor leaves the workers to a full queue.
EveryJobEnds ==
    \A j \in Jobs : phase[j] = "walking"
                      ~> (phase[j] \in Returned \/ Spinning(j) \/ cancelled[j])
=============================================================================
