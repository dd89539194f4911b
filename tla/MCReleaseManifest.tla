------------------------- MODULE MCReleaseManifest -------------------------
EXTENDS ReleaseManifest

Good == [imageDigest |-> "exact", platform |-> "linux/arm64",
         expectedVersion |-> None, expectedDigest |-> None]
MCArguments ==
  {Good, [Good EXCEPT !.imageDigest = "placeholder"], [Good EXCEPT !.platform = "darwin/arm64"],
   [Good EXCEPT !.expectedVersion = "loan-model.v2"], [Good EXCEPT !.expectedDigest = "m1"]}
=============================================================================
