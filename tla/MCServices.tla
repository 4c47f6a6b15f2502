------------------------------ MODULE MCServices ------------------------------
(***************************************************************************)
(* The services that share nothing but the database file, side by side in  *)
(* one run: "active" names the one whose operations a behavior consists of, *)
(* and the variables of the others keep their initial values.              *)
(***************************************************************************)
EXTENDS EpisodeLedger, ExperienceReview, MemoryReview, MCPackets, WorkingSet,
        MCSymbolResolution, ExperienceExtraction, TestImport, TLC

CONSTANTS p1, p2, a1, a2, a3, b1, b2, k1, k2, c1, c2, d1

VARIABLE active

MCActors == {p1, p2}
MCItems == {a1, a2}
MCMemories == {a1, a2, a3}
MCOthers == {b1, b2}
MCKeys == {k1, k2}
MCForms == {c1, c2}
MCOne == {d1}

Symmetry ==
    Permutations(MCActors) \cup Permutations(MCItems) \cup Permutations(MCOthers)
        \cup Permutations(MCKeys) \cup Permutations(MCForms)

-----------------------------------------------------------------------------
(* Episodes: events of every contract, and some that say nothing. *)

E(contract, type, subject, exit, failures) ==
    [contract |-> contract, type |-> type, session |-> TRUE, subject |-> subject,
     claim |-> IF contract = "testrun" THEN "completed"
               ELSE IF contract = "source" THEN type
               ELSE IF contract = "acceptance" THEN "accepted" ELSE "none",
     exit |-> exit, failures |-> failures, seen |-> {"passed"}, flaws |-> {},
     inputs |-> "inputs"]
Typed(cause) == {[cause |-> cause, identity |-> "typed"]}
Coarse(cause) == {[cause |-> cause, identity |-> "named"]}
AppPackage == [kind |-> "package", value |-> "app"]
AppTarget == [kind |-> "target", value |-> "app"]
SuitePath == [kind |-> "path", value |-> "app"]

MCObservations ==
    {E("unknown", "note", AppPackage, "none", {}), E("tool", "tool", AppPackage, "zero", {}),
     E("source", "modified", AppPackage, "none", {}),
     E("rustc", "compiler", AppPackage, "nonzero", Typed("types")),
     E("rustc", "compiler", AppPackage, "zero", {}),
     E("rustc", "compiler", AppPackage, "zero", Typed("types")),
     E("rustc", "compiler", AppTarget, "nonzero", Coarse("types")),
     E("acceptance", "acceptance", SuitePath, "none", {}),
     [E("cargo", "test", AppPackage, "zero", {}) EXCEPT !.seen = {}],
     E("testrun", "test", SuitePath, "nonzero", Coarse("types")),
     E("testrun", "test", SuitePath, "zero", {}),
     [E("testrun", "test", SuitePath, "zero", {}) EXCEPT !.inputs = "other inputs"]}

-----------------------------------------------------------------------------
Services ==
    {"ledger", "review", "memory", "packet", "set", "resolution", "scan", "import"}

ServicesInit ==
    /\ active \in Services
    /\ LedgerInit /\ ReviewInit /\ MemoryInit /\ PacketInit /\ SetInit
    /\ ResolutionInit /\ ScanInit /\ ImportInit
    /\ active # "review" => legacy = {}
    /\ active # "packet" => asked = [budget |-> 2, limit |-> 2]

Rests(service) ==
    /\ service # "ledger" => UNCHANGED ledgerVars
    /\ service # "review" => UNCHANGED reviewVars
    /\ service # "memory" => UNCHANGED memoryVars
    /\ service # "packet" => UNCHANGED packetVars
    /\ service # "set" => UNCHANGED setVars
    /\ service # "resolution" => UNCHANGED resolutionVars
    /\ service # "scan" => UNCHANGED scanVars
    /\ service # "import" => UNCHANGED importVars

ServicesNext ==
    /\ UNCHANGED active
    /\ \/ active = "ledger" /\ LedgerNext /\ Rests("ledger")
       \/ active = "review" /\ ReviewNext /\ Rests("review")
       \/ active = "memory" /\ MemoryNext /\ Rests("memory")
       \/ active = "packet" /\ PacketNext /\ Rests("packet")
       \/ active = "set" /\ SetNext /\ Rests("set")
       \/ active = "resolution" /\ ResolutionNext /\ Rests("resolution")
       \/ active = "scan" /\ ScanNext /\ Rests("scan")
       \/ active = "import" /\ ImportNext /\ Rests("import")

ServicesSpec == ServicesInit /\ [][ServicesNext]_<<active, ledgerVars, reviewVars,
    memoryVars, packetVars, setVars, resolutionVars, scanVars, importVars>>

\* The variables of the service that acts have their types.
TypesOK ==
    CASE active = "ledger" -> LedgerTypeOK
      [] active = "review" -> ReviewTypeOK
      [] active = "memory" -> MemoryTypeOK
      [] active = "packet" -> PacketTypeOK
      [] active = "set" -> SetTypeOK
      [] active = "resolution" -> ResolutionTypeOK
      [] active = "scan" -> ScanTypeOK
      [] active = "import" -> ImportTypeOK
=============================================================================
