---------------------------- MODULE MCBlobSources ----------------------------
(***************************************************************************)
(* Manifests of one and two bytes, one that cannot execute and one with    *)
(* too many blocks, in one or two sources; and sources without a manifest: *)
(* no blobs, garbage, a version or a size that is off, an offset too far.  *)
(***************************************************************************)
EXTENDS BlobSources

MCManifests == {"small", "large", "unusable", "crowded"}
MCStream == "small" :> <<31>> @@ "large" :> <<41, 42>> @@ "unusable" :> <<51>> @@ "crowded" :> <<61>>
MCBlockCount == "small" :> 1 @@ "large" :> 2 @@ "unusable" :> 1 @@ "crowded" :> 3

MCSource(blobs, offset) == [blobHashes |-> blobs, offset |-> offset]

MCOddSources ==
  {MCSource(<<>>, 0),                  \* no blobs
   MCSource(<<<<>>>>, 0),              \* nothing in the blob
   MCSource(<<Garbage>>, 0),
   MCSource(<<<<1, 1, 31>>, Garbage>>, 0),
   MCSource(<<<<9, 1, 31>>>>, 0),      \* a version above 2^32
   MCSource(<<<<17, 1, 31>>>>, 0),     \* a version above 2^64
   MCSource(<<<<2, 1, 31>>>>, 0),      \* another version
   MCSource(<<<<1, 2, 31>>>>, 0),      \* a size that is too large
   MCSource(<<<<1, 1, 41>>, <<42>>>>, 0), \* one that is too small
   MCSource(<<<<1, 2, 31, 7>>>>, 0),   \* a byte after the stream
   MCSource(<<<<1, 1, 31>>>>, 4),      \* past the end
   MCSource(<<<<0, 0, 0, 0, 0, 0, 1, 1, 31>>>>, 6)} \* past the largest offset

==============================================================================
