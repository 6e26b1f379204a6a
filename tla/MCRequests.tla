----------------------------- MODULE MCRequests -----------------------------
(* What users and operators ask for and what their requests go through, for   *)
(* TLC: the inbox of a user (Outbox), the departments and their members        *)
(* (Directory), the questions of a user (ChatRequests), the context assembled *)
(* for them (ContextAssembly), the enrichment of a document (Enrichment), the *)
(* generations of the index (Generations), the releases of retrieval          *)
(* (Releases), the builds of the public graph (GraphBuild), the quota of      *)
(* pages (Quota) and the local meters (Metering), checked side by side: a     *)
(* behaviour moves one part, the others stand.  Quota, meters and enrichment  *)
(* have their fairness here; the liveness of the others is elsewhere.         *)
EXTENDS MCOutbox, Directory, Generations, Releases, GraphBuild, Quota, Metering, ChatRequests,
        ContextAssembly, Enrichment

VARIABLE part

Parts == {"inbox", "directory", "requests", "releases", "assembly", "enrichment", "index", "graph",
          "quota", "meters"}

\* Gates of two shapes
Limits(latency, quality) == [latency |-> latency, quality |-> quality]
Shape(limits, latency, quality) ==
    [limits |-> limits, severity |-> [latency |-> latency, quality |-> quality]]
Shapes == {Shape(Limits(4, 1), "blocking", "blocking"), Shape(Limits(2, 2), "blocking", "advisory")}
OneSuite == {Limits(2, 2)}

\* One document, and the components of a collection
OneDocument == <<"d1">>
TwoComponents == <<"sparse", "vector">>

\* Chunks with and without parents, in two spaces
Chunk(space, parent, tokens, parentTokens) ==
    [space |-> space, parent |-> parent, tokens |-> tokens, parentTokens |-> parentTokens]
ChunkShapes ==
    {Chunk("a", "none", 1, 0), Chunk("a", "p", 1, 2), Chunk("a", "p", 2, 2), Chunk("a", "q", 2, 3),
     Chunk("b", "none", 2, 0), Chunk("b", "r", 1, 4)}

\* Small documents of every shape
Shaped(t, s, b, w) == [tokens |-> t, section |-> s, bySection |-> b, whole |-> w]
Documents ==
    {Shaped(<<1, 1, 1, 1>>, <<1, 1, 2, 2>>, FALSE, TRUE),   \* fits as a whole
     Shaped(<<1, 1, 1, 4>>, <<1, 1, 1, 1>>, FALSE, FALSE),  \* a chunk over the limit
     Shaped(<<1, 1, 1, 1>>, <<1, 2, 2, 2>>, TRUE, FALSE),   \* two sections
     Shaped(<<2, 2, 1>>, <<1, 1, 2>>, TRUE, FALSE)}

allVars == <<part, vars, directoryVars, requestVars, releaseVars, assemblyVars, enrichmentVars,
             genVars, graphVars, quotaVars, meteringVars>>

RequestsInit ==
    /\ part \in Parts
    /\ Init /\ DirectoryInit /\ AskingInit /\ ReleaseInit
    /\ AssemblyInit /\ EnrichmentInit /\ GenInit
    /\ GraphInit /\ QuotaInit /\ MeteringInit
    /\ part # "assembly" => ranked = <<Chunk("a", "none", 1, 0)>>
    /\ part # "enrichment" => input.whole /\ cached = {}

\* The part moves and the variables of every other one stand
RequestsNext ==
    /\ UNCHANGED part
    /\ IF part = "inbox"      THEN Next ELSE UNCHANGED vars
    /\ IF part = "directory"  THEN DirectoryNext ELSE UNCHANGED directoryVars
    /\ IF part = "requests"   THEN AskingNext ELSE UNCHANGED requestVars
    /\ IF part = "releases"   THEN ReleaseNext ELSE UNCHANGED releaseVars
    /\ IF part = "assembly"   THEN AssemblyNext ELSE UNCHANGED assemblyVars
    /\ IF part = "enrichment" THEN EnrichmentNext ELSE UNCHANGED enrichmentVars
    /\ IF part = "index"      THEN GenNext ELSE UNCHANGED genVars
    /\ IF part = "graph"      THEN GraphNext ELSE UNCHANGED graphVars
    /\ IF part = "quota"      THEN QuotaNext ELSE UNCHANGED quotaVars
    /\ IF part = "meters"     THEN MeteringNext ELSE UNCHANGED meteringVars

PagesFairness ==
    /\ WF_quotaVars(part = "quota" /\ Maintain)
    /\ \A t \in QuotaTxs :
          WF_quotaVars(part = "quota" /\ qtx[t].pc # "idle" /\ Transact(t))

MetersFairness ==
    /\ \A s \in Scopes : WF_meteringVars(part = "meters" /\ MeterLapses(s))
    /\ \A t \in Ticks : /\ WF_meteringVars(part = "meters" /\ FindExpired(t))
                        /\ WF_meteringVars(part = "meters" /\ RecoverRow(t))

RequestsSpec ==
    /\ RequestsInit /\ [][RequestsNext]_allVars
    /\ PagesFairness /\ MetersFairness
    /\ WF_enrichmentVars(part = "enrichment" /\ EnrichmentNext)

-----------------------------------------------------------------------------
(* Properties of the parts, stated in their modules *)

\* A key has one answer and what is kept of a conversation fits together; a
\* context stays within its budget of items and tokens; and every chunk is
\* enriched or left raw, with every call of it in the ledger
RequestsKept == RequestsSafe /\ AssemblySafe /\ EnrichmentSafe

\* What may be reached is not collected, and one build of the graph runs
IndexKept == GenerationsSafe /\ GraphSafe

\* A switch of the index, or of the graph, is whole and current
SwitchesAreWhole == SwitchIsWhole /\ ReleasesCurrent

\* The ledger of debits and credits is what the projection counts, and a meter
\* ends in one usage event that holds what was reported, in any order of
\* transactions and ticks
CountsKept == QuotaSafe /\ MeteringSafe

\* A request for quota nobody may approve does not stay pending, and every meter
\* of local work ends, and so does the processing of a document
CountsEnd ==
    /\ QuotaRequestsEnd
    /\ MetersEnd
    /\ []<>(part = "enrichment" => ProcessingEnded)

=============================================================================
