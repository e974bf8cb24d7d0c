-------------------------- MODULE MCTraceDependencies --------------------------
(***************************************************************************)
(* TraceDependencies on every repository of three files with at most one   *)
(* call among three names each, recursion and calls outside of any         *)
(* definition included, and on some of two or three files with several     *)
(* calls: a chain written backwards, a diamond, two ways of different      *)
(* length to one name, and two calls on one line.                          *)
(***************************************************************************)
EXTENDS TraceDependencies

CONSTANTS r, a, b

Names == {r, a, b}

Site(caller, callee, line) == [caller |-> caller, callee |-> callee, line |-> line]

OneCall == {<<>>} \cup {<<Site(x, y, 1)>> : x \in Names, y \in Names} \cup {<<Site(None, r, 1)>>}

Longer == {
    <<<<Site(b, a, 1)>>, <<Site(a, r, 1), Site(r, b, 2)>>, <<Site(b, b, 1), Site(a, b, 1)>>>>,
    <<<<Site(a, r, 1), Site(b, r, 2)>>, <<Site(r, a, 1), Site(r, b, 2)>>>>,
    <<<<Site(a, b, 1), Site(b, a, 2)>>, <<Site(a, r, 1), Site(a, r, 1), Site(b, r, 2)>>>>,
    <<<<Site(r, a, 1), Site(r, b, 2)>>, <<Site(b, a, 1)>>, <<Site(a, b, 1)>>>>,
    <<<<Site(r, a, 1), Site(r, a, 1), Site(a, b, 2)>>, <<Site(b, r, 1), Site(None, a, 2)>>>>}

MCRepos == [1 .. 3 -> OneCall] \cup Longer

=============================================================================
