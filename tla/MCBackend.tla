---- MODULE MCBackend ----
(***************************************************************************
 The threads of the back end: two administrators on two requests; the agents of
 two hosts, whose worn disks share a title, or the poll job; three callers of one
 Docker host; two overviews at once.
 ***************************************************************************)
EXTENDS Backend, TLC

MCWorn(k, t) == [key |-> k, title |-> t]
MCPayloads == {<<MCWorn("h1", "90")>>, <<MCWorn("h1", "91")>>, <<MCWorn("h2", "90")>>}
MCWarnings == {<<MCWorn("ram", "90"), MCWorn("cpu", "95")>>, <<MCWorn("ram", "91")>>}
\* The ingest handlers are told apart by nothing.
MCSymmetry == Permutations(Handlers)

MCBackoff == [failed |-> 1, denied |-> 2]
====
