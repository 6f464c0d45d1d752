---------------------------- MODULE MCZipWriter ----------------------------
(***************************************************************************)
(* The zip writer alone, driven by any caller that follows the protocol of *)
(* IZipWriter, and read back by the zip reader.                            *)
(***************************************************************************)
EXTENDS ZipWriter, ZipReader

CONSTANT MaxFileSize  \* bound on the bytes written to one file

MCNameSize == [n \in Name |-> 1]

\* An archive that Close() ended without an exception opens, lists exactly the
\* files that were ended, and every file is found where its bytes were written
\* with the sizes given to EndFile: the reader decodes what the writer encoded,
\* in the 32-bit fields or in the extended information.
ArchiveReadable ==
    zipState = "Closed" /\ DOMAIN centralDirectories # {} =>
        LET archive == OpenArchive(out, pos)
        IN  /\ archive.ok
            /\ archive.names = DOMAIN centralDirectories
            /\ \A n \in archive.names :
                  LET file == GetFile(out, archive.entries, n)
                      data == {a \in DOMAIN out : out[a].kind = "data" /\ out[a].name = n}
                  IN  /\ file.ok
                      /\ data = IF file.size = 0 THEN {} ELSE {file.at}
                      /\ \A a \in data : out[a].len = file.size

\* The writes to one file stop at MaxFileSize.
MCZipSpec ==
    ZipInit /\ [][ZipNext /\ (zipFile' # Null => zipFile'.size <= MaxFileSize)]_zipVars
=============================================================================
