----------------------------- MODULE MCTerminal -----------------------------
(***************************************************************************)
(* Instances of Terminal for TLC: a shell, a directory with an index in it *)
(* that may also be a file or absent, and an asset with an extension.      *)
(***************************************************************************)
EXTENDS Terminal

Shell == <<"index.html">>
Docs == <<"docs">>
DocsIndex == <<"docs", "index.html">>
Asset == <<"app.js">>

mcName == {Shell, Docs, DocsIndex, Asset}
mcIndex == {Shell}
mcPath == {<<>>, <<".", "docs", "">>, DocsIndex, Asset, <<"..", "app.js">>}
mcHidden == {".."}
mcWithExt == {"index.html", "app.js"}
=============================================================================
