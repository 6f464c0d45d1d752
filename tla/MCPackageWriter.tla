-------------------------- MODULE MCPackageWriter --------------------------
(***************************************************************************)
(* The package writer on small instances, its packages read back by the    *)
(* package reader.                                                         *)
(***************************************************************************)
EXTENDS PackageWriter, PackageReader

CONSTANTS
    aTxt, bTXT, noExt, xXml,  \* payload files a.txt, b.TXT, noext, x.XML
    manifestUpper,            \* APPXMANIFEST.XML, a footprint file by any spelling
    badName, reserved         \* a name with a reserved character; AppxMetadata/x

MCNameSize == [n \in Name |-> IF n \in {ManifestName, ContentTypesName} THEN 2 ELSE 1]
MCExt == [n \in Name |-> CASE n = aTxt -> "txt" [] n = bTXT -> "TXT" [] n = noExt -> Null
                           [] n = xXml -> "XML" [] OTHER -> "xml"]
MCLower == [e \in {"txt", "TXT", "xml", "XML"} |->
               IF e = "TXT" THEN "txt" ELSE IF e = "XML" THEN "xml" ELSE e]
MCDirectoryEntry == [n \in Name |-> [ctype |-> CHOOSE t \in Type : TRUE,
                                     option |-> IF n = aTxt THEN "NONE" ELSE CHOOSE o \in Option : o # "NONE" \/ Option = {"NONE"}]]
MCFootprint == {ManifestName, BlockMapName, ContentTypesName, manifestUpper} \cap Name

\* A package whose Close returned S_OK opens, its payload is exactly the files
\* the calls that returned S_OK added, and every one of them passes VerifyFile
\* with the size and the compression it was added with.
RoundTrip ==
    pkgState = "Closed" =>
        LET package == OpenPackage(out, pos, blockMap)
            files == {j \in added : j.name \notin FootprintPart}
        IN  /\ package.ok
            /\ package.payload = {j.name : j \in files}
            /\ \A j \in files :
                  /\ PayloadOpens(out, package, blockMap, j.name)
                  /\ GetFile(out, package.entries, j.name).usize = j.size
                  /\ GetFile(out, package.entries, j.name).deflate = j.deflate

\* A public call that has begun always has a next step that does not fail,
\* until it returns: the zip writer, the deflate stream and the two XML writers
\* are in the state the next statement needs, so that none of them throws
\* InvalidState, DeflateWrite or XmlError whatever the streams and the files
\* of the call do. (The next file of a loop over payload files is the caller's
\* to choose, and may be one that is refused.)
NoStuckCall ==
    (call # "none" /\ (job # Null \/ (pending = 0 /\ listing = {}))) =>
        ENABLED (Next /\ pkgState' # "Failed")
=============================================================================
