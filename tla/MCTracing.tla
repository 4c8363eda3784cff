------------------------------- MODULE MCTracing -------------------------------
(* Names and paths for the run of Tracing.                                 *)
EXTENDS Tracing

CONSTANTS p1, p2

\* The second executable, cut, has the name of the first; its stat line reads "... (x) S p1) S parent".
sh == <<"/", "opt", "bin", "sh">>
odd == <<"/", "opt", "bin", "sh", "odd">>
MCExecutables == {sh, odd}
MCComm == [e \in MCExecutables |-> IF e = odd THEN <<"x", ")", "S", p1>> ELSE <<"sh">>]

MCMount == <<"/", "canary">>
MCCanaryDir == <<"/", "run">>
MCSecretNames == {<<"key">>, <<"aws", "key">>}
\* The directory itself, another name of it, and the one above.
MCCatalogDirs == {MCCanaryDir, <<"run">>, <<"/">>, None}
MCLinks == [link \in {<<"/", "tmp", "key">>} |-> <<"/", "canary", "key">>]
\* Opened files with a catalog, processes without one.
MCBounded(dir, kind) == (dir = None) = (kind # "openat")
\* Secrets by their names, relative, in other spellings and behind a link; longer than fits; others.
MCPaths == {<<"/", "run", "key">>, <<"/", "canary", "aws", "key">>,
            <<"key">>, <<"/", "canary", ".", "key">>, <<"/", "", "canary", "key">>,
            <<"/", "..", "canary", "key">>, <<"/", "tmp", "key">>,
            <<"/", "canary", "aws", "key", "more">>, <<"/", "canary", "key", "more">>,
            <<"/", "canary", "run", "key">>}
=============================================================================
