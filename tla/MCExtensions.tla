---------------------------- MODULE MCExtensions ----------------------------
(* An instance of Extensions with a built-in, two Lua files and one MCP     *)
(* server, for the run of a reload that a user asks for.                    *)
EXTENDS Extensions

CONSTANTS k1, t1, t2, f1, f2, c1

MCOrder == <<f1, f2>>
MCPolicy == {[allow |-> All, exclude |-> {}], [allow |-> {t1, t2}, exclude |-> {t2}]}
MCBatch == {{}, {t1}, {k1, t2}}
=============================================================================
