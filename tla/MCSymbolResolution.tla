-------------------------- MODULE MCSymbolResolution --------------------------
EXTENDS SymbolResolution

N(key, name, qualified, module) ==
    [key |-> key, name |-> name, qualified |-> qualified, module |-> module]
F(kind, target, aliases, sibling, external) ==
    [kind |-> kind, target |-> target, aliases |-> aliases, sibling |-> sibling,
     external |-> external]

\* Document 1 calls "run", which may be beside it, elsewhere, or in two places,
\* and imports a module, a part of the standard library and a relative path.
Calls == {F("symbol", "run", {}, "app.run", {}), F("symbol", "lib.run", {}, NoSibling, {}),
          F("local", "lib.ts::run", {}, NoSibling, {})}
Imports == {F("module", "lib", {}, NoSibling, {}), F("module", "std", {}, NoSibling, {"std"}),
            F("module", "./lib", {"lib.ts", "lib/index.ts"}, NoSibling, {})}

MCDocs == {1, 2, 3}
MCValues == {"run", "app", "app.run", "lib", "lib.run", "std", "./lib",
             "app.ts", "lib.ts", "lib/index.ts", "index.ts",
             "app.ts::app.run", "lib.ts::run", "lib/index.ts::run", "lib/index.ts::lib"}
MCSimple == {"run", "app", "lib", "std"}

App == N("app.ts", "app.ts", "app.ts", TRUE)
Lib == N("lib.ts", "lib.ts", "lib.ts", TRUE)
Index == N("lib/index.ts", "index.ts", "lib/index.ts", TRUE)

MCContents ==
    [d \in MCDocs |->
        CASE d = 1 -> {[nodes |-> {App}, facts |-> Calls \cup Imports],
                       [nodes |-> {App, N("app.ts::app.run", "run", "app.run", FALSE)},
                        facts |-> Calls]}
          [] d = 2 -> {[nodes |-> {Lib}, facts |-> {}],
                       [nodes |-> {Lib, N("lib.ts::run", "run", "lib.run", FALSE)},
                        facts |-> {}]}
          [] d = 3 -> {[nodes |-> {Index, N("lib/index.ts::lib", "lib", "lib", TRUE)},
                        facts |-> {}],
                       [nodes |-> {Index, N("lib/index.ts::lib", "lib", "lib", FALSE),
                                   N("lib/index.ts::run", "run", "run", FALSE)},
                        facts |-> {}]}]
=============================================================================
