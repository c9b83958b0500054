----------------------------- MODULE MCPackages -----------------------------
(***************************************************************************)
(* `lib', `tool' and `alt' are .deb files that share a directory below /;  *)
(* `tool' depends on `lib', and `lib' and `alt' carry the same file.       *)
(* `app' is a private .ainstall package below UNI_ROOT.                    *)
(***************************************************************************)
EXTENDS Packages, TLC

MCDebs == {"lib", "tool", "alt"}
MCAll == {"lib", "tool", "alt", "app"}
MCColliding == {"lib", "alt"}
MCPrivate == {"lib", "app"}
MCOne == {"app"}
MCSystem == MCDebs \cap Pkgs
MCDirs == {"/", "opt", "apps", "apps/app"}
MCPaths == MCDirs \cup {"opt/conf", "opt/tool", "opt/alt", "apps/app/run"}
MCParent == [x \in MCPaths |->
    CASE x \in {"opt/conf", "opt/tool", "opt/alt"} -> "opt"
      [] x = "apps/app/run" -> "apps/app"
      [] x = "apps/app" -> "apps"
      [] OTHER -> "/"]
MCBase == [p \in Pkgs \ MCSystem |-> "apps/app"]
MCPayload == [p \in Pkgs |->
    CASE p = "lib" -> <<"opt", "opt/conf">>
      [] p = "tool" -> <<"opt", "opt/tool">>
      [] p = "alt" -> <<"opt", "opt/alt", "opt/conf">>
      [] p = "app" -> <<"apps", "apps/app", "apps/app/run">>]
MCDepends == [p \in Pkgs |-> IF p = "tool" THEN {"lib"} ELSE {}]
MCBefore == {"/", "apps"}
\* Before the first private package /main/Applications does not exist.
MCFresh == {"/"}
Symmetry == Permutations(Unis)
=============================================================================
