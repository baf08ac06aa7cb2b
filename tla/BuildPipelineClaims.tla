------------------------- MODULE BuildPipelineClaims -------------------------
(***************************************************************************)
(* What comments of the extension say of the build driver and the code does *)
(* not keep.  Each operator is one sentence of the repository; a run of its *)
(* own shows the shortest history that contradicts it.                      *)
(***************************************************************************)
EXTENDS BuildPipeline

\* upToDateCheck.ts: "If nothing is newer, the user's last build is still valid
\* -- we skip msbuild AND rsm2pdb entirely and return success": a skipped Make
\* leaves an image that can be debugged with the selected backend.
SkipMeansDebuggable ==
    [][\A b \in Builds : Ends(b, {"okSkipped"}) => Debuggable(backend)]_vars

\* buildRunner.ts, cancelBuild: "Cancel the running build, if any."  A build in
\* progress when Cancel is pressed does not go on to succeed.
CancelHonoured ==
    [][\A b \in Builds : Ends(b, Ok) => frame[b].asked = "no"]_vars
=============================================================================
