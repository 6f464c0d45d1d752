----------------------------- MODULE ZipReader -----------------------------
(***************************************************************************)
(* ZipObjectReader: opening an archive and getting one of its files.  Pure *)
(* operators over a stream `arc' of `eof' bytes; a value with ok = FALSE   *)
(* stands for the exception the code throws.                               *)
(***************************************************************************)
EXTENDS ZipFormat, FiniteSetsExt

IsAt(arc, a, kind) == a \in DOMAIN arc /\ arc[a].kind = kind

\* EndCentralDirectoryRecord::Read and the two zip64 records found from it; the
\* writer's end record always has its fields at their maximum, hence zip64.
FindCentralDirectory(arc, eof) ==
    LET at == eof - EocdSize
        locatorAt == at - Zip64LocatorSize
        tail == arc[locatorAt].at
        r == arc[tail]
    IN  IF /\ IsAt(arc, at, "eocd")
           /\ IsAt(arc, locatorAt, "locator")
           /\ tail # 0 /\ tail < locatorAt + Zip64LocatorSize
           /\ IsAt(arc, tail, "eocd64")
           /\ r.count # 0
           /\ r.cdSize # 0 /\ r.cdSize < tail + Zip64EocdSize
           /\ r.cdAt # 0 /\ r.cdAt < tail + Zip64EocdSize
        THEN [ok |-> TRUE, start |-> r.cdAt, tail |-> tail, count |-> r.count]
        ELSE [ok |-> FALSE]

\* CentralDirectoryFileHeader::Read: the checks on the offset of the local
\* header, in the 32-bit field or in the extended information.
HeaderAccepted(h, at, start) ==
    IF h.at.f32 = MaxField32 THEN h.at.f64 < at + CdhSize(h)
                             ELSE h.at.f32 < start

\* The offsets at which the constructor's loop reads the headers, one after
\* the other; Null once a header is missing or refused.
HeaderOffsets(arc, cd) ==
    LET offset[i \in 0..cd.count] ==
            IF i = 0 THEN cd.start
            ELSE LET a == offset[i - 1]
                 IN  IF a # Null /\ IsAt(arc, a, "cdh") /\ a < cd.tail
                        /\ HeaderAccepted(arc[a].header, a, cd.start)
                     THEN a + arc[a].len ELSE Null
    IN  offset

\* The ZipObjectReader constructor.  insert() keeps the first of two headers
\* with one name; hidden data after the last header is refused.
OpenArchive(arc, eof) ==
    LET cd == FindCentralDirectory(arc, eof)
    IN  IF ~cd.ok THEN [ok |-> FALSE]
        ELSE LET offset == HeaderOffsets(arc, cd)
                 header(i) == arc[offset[i - 1]].header
                 names == {header(i).name : i \in 1..cd.count}
                 first(n) == Min({i \in 1..cd.count : header(i).name = n})
             IN  IF offset[cd.count] # cd.tail THEN [ok |-> FALSE]
                 ELSE [ok |-> TRUE, names |-> names,
                       entries |-> [n \in names |-> header(first(n))]]

\* GetFile: LocalFileHeader::Read checks the local header against the entry and
\* the file's stream is the range after it.
GetFile(arc, entries, n) ==
    LET h == entries[n]
        a == WideValue(h.at)
    IN  IF /\ IsAt(arc, a, "lfh")
           /\ arc[a].dd = h.dd
           /\ arc[a].dd => arc[a].csize = 0
        THEN [ok |-> TRUE, at |-> a + arc[a].len, size |-> WideValue(h.csize),
              usize |-> WideValue(h.usize), deflate |-> h.deflate]
        ELSE [ok |-> FALSE]
=============================================================================
