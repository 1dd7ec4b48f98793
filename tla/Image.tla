------------------------------- MODULE Image -------------------------------
(***************************************************************************)
(* image: download a file, check it against what the cloud announced,      *)
(* unpack it, copy it to a file or to a device.                            *)
(*                                                                         *)
(* The content of a file is a sequence of chunks, and a checksum is the    *)
(* content itself.  The download library resumes a shorter local file, and *)
(* takes one of the same length for the file it is asked for; the process  *)
(* may crash during a download and leave a part of it.                     *)
(***************************************************************************)
EXTENDS Naturals, SequencesExt

CONSTANTS
    Contents,      \* contents of files: non-empty sequences of chunks
    Archives,      \* archives: sequences of items
    Names,         \* names of items
    NoFile

ASSUME ContentAssumption == \A c \in Contents : c \in Seq(Range(c)) /\ c # <<>>

\* A name that ends in a slash is that of a directory: archive/tar.
ASSUME ArchiveAssumption ==
    /\ IsFiniteSet(Names)
    /\ \A a \in Archives :
          /\ a \in Seq(Range(a))
          /\ \A k \in DOMAIN a : /\ a[k].name \in Names /\ a[k].size \in Nat
                                 /\ a[k].name = "./" => a[k].type = "dir"

VARIABLES
    remote,        \* what the URL gives
    fileInfo,      \* content the caller expects
    local,         \* the downloaded file
    imagePC,       \* where the caller is
    hashed,        \* number of chunks hashed
    accepted,      \* a check of the local file has succeeded
    spoiled        \* history: a crash or a failed removal left a part of a file, or
                   \* a download went on with what was there

downloadVars == <<remote, fileInfo, local, imagePC, hashed, accepted, spoiled>>

DownloadInit ==
    /\ remote \in Contents
    /\ fileInfo \in Contents
    /\ local = NoFile
    /\ imagePC = "idle"
    /\ hashed = 0
    /\ accepted = FALSE
    /\ spoiled = FALSE

\* The server offers something else: external.
Publish ==
    /\ imagePC = "idle"
    /\ remote' \in Contents \ {remote}
    /\ accepted' = FALSE
    /\ UNCHANGED <<fileInfo, local, imagePC, hashed, spoiled>>

-----------------------------------------------------------------------------
(***************************************************************************)
(* Download.  grab's Do: a local file of the same length is complete, a    *)
(* longer one is an error, a shorter one is resumed if the server can and  *)
(* written anew if not.                                                    *)
(***************************************************************************)
Download ==
    /\ imagePC = "idle"
    /\ imagePC' = "transfer"
    /\ accepted' = FALSE
    /\ \/ /\ local # NoFile => Len(local) < Len(remote)
          /\ local' = <<>>
          /\ UNCHANGED spoiled
       \/ /\ local # NoFile /\ Len(local) < Len(remote)
          /\ spoiled' = TRUE
          /\ UNCHANGED local
       \/ /\ local # NoFile /\ Len(local) >= Len(remote)
          /\ UNCHANGED <<local, spoiled>>
    /\ UNCHANGED <<remote, fileInfo, hashed>>

Transfer ==
    /\ imagePC = "transfer"
    /\ Len(local) < Len(remote)
    /\ local' = Append(local, remote[Len(local) + 1])
    /\ UNCHANGED <<remote, fileInfo, imagePC, hashed, accepted, spoiled>>

\* resp.Done without an error
DownloadComplete ==
    /\ imagePC = "transfer"
    /\ Len(local) = Len(remote)
    /\ imagePC' = "idle"
    /\ UNCHANGED <<remote, fileInfo, local, hashed, accepted, spoiled>>

\* Fault: the file of a failed download stays.
LeaveFile == UNCHANGED <<local, spoiled>>

\* os.RemoveAll(resp.Filename), whose error is logged
RemoveFile ==
    \/ local' = NoFile /\ UNCHANGED spoiled
    \/ spoiled' = TRUE /\ UNCHANGED local

\* resp.Done with an error: the context was cancelled, the connection failed, or
\* the local file was too long.
DownloadFails ==
    /\ imagePC = "transfer"
    /\ RemoveFile
    /\ imagePC' = "idle"
    /\ UNCHANGED <<remote, fileInfo, hashed, accepted>>

CrashInDownload ==
    /\ imagePC = "transfer"
    /\ imagePC' = "idle"
    /\ spoiled' = TRUE
    /\ UNCHANGED <<remote, fileInfo, local, hashed, accepted>>

(***************************************************************************)
(* CheckFileInfo compares the size before it reads the file, ValidateDigest *)
(* and CreateFileInfo do not.  The context reader asks the context before  *)
(* each read; ValidateDigest reads without one.                            *)
(***************************************************************************)
OpenFile(reader) ==
    /\ imagePC = "idle"
    /\ local # NoFile
    /\ reader = "CheckFileInfo" => Len(local) = Len(fileInfo)
    /\ imagePC' = reader
    /\ hashed' = 0
    /\ UNCHANGED <<remote, fileInfo, local, accepted, spoiled>>

Readers == {"CheckFileInfo", "ValidateDigest", "CreateFileInfo"}

Read ==
    /\ imagePC \in Readers
    /\ hashed < Len(local)
    /\ \/ hashed' = hashed + 1 /\ UNCHANGED imagePC
       \/ \* the context is done, or the file cannot be read
          imagePC' = "idle" /\ UNCHANGED hashed
    /\ UNCHANGED <<remote, fileInfo, local, accepted, spoiled>>

\* Fault: the length is enough.
SameLength(a, b) == Len(a) = Len(b)

SumEqual(a, b) == a = b

\* The checksum is compared; for CreateFileInfo it becomes what is expected.
EndOfFile ==
    /\ imagePC \in Readers
    /\ hashed = Len(local)
    /\ imagePC' = "idle"
    /\ IF imagePC = "CreateFileInfo"
       THEN fileInfo' = SubSeq(local, 1, hashed) /\ UNCHANGED accepted
       ELSE accepted' = SumEqual(SubSeq(local, 1, hashed), fileInfo) /\ UNCHANGED fileInfo
    /\ UNCHANGED <<remote, local, hashed, spoiled>>

DownloadNext ==
    \/ Publish \/ Download \/ Transfer \/ DownloadComplete \/ DownloadFails \/ CrashInDownload
    \/ \E reader \in Readers : OpenFile(reader)
    \/ Read \/ EndOfFile

DownloadSpec == DownloadInit /\ [][DownloadNext]_downloadVars

-----------------------------------------------------------------------------
(***************************************************************************)
(* Unpacking.  An item has a type, a name and a size; sizes are counted in *)
(* units of dirSymlinkSize.                                                *)
(***************************************************************************)
VARIABLES
    archive,       \* items of the archive
    position,      \* number of items handled
    unpacker,      \* "UntarGZArchive", "UnpackTarImage", or "none"
    tree,          \* tree[n]: what the destination has under name n
    unpackResult   \* what the last call returned

unpackVars == <<archive, position, unpacker, tree, unpackResult>>

Absent == [type |-> "absent", size |-> 0]

UnpackInit ==
    /\ archive \in Archives
    /\ position = 0
    /\ unpacker = "none"
    /\ tree = [n \in Names |-> Absent]
    /\ unpackResult = "none"

Units(item) ==
    CASE item.type \in {"dir", "symlink"} -> 1
      [] item.type = "reg" -> item.size
      [] OTHER -> 0

\* Fault: directories and links take no space.
UnitsOfFiles(items) ==
    SumFunction([k \in DOMAIN items |-> IF items[k].type = "reg" THEN items[k].size ELSE 0])

GetUncompressedTarContentSize(items) == SumFunction([k \in DOMAIN items |-> Units(items[k])])

Unpack(how) ==
    /\ unpacker = "none"
    /\ unpackResult # "nil"
    /\ unpacker' = how
    /\ position' = 0
    /\ unpackResult' = "none"
    /\ UNCHANGED <<archive, tree>>

Item == archive[position + 1]

Put(n, type, size) == tree' = [tree EXCEPT ![n] = [type |-> type, size |-> size]]

UnpackFails ==
    /\ unpacker' = "none"
    /\ unpackResult' = "error"
    /\ UNCHANGED <<archive, position>>

\* The context is done, the archive is broken, or tar fails.
UnpackError ==
    /\ unpacker # "none"
    /\ UnpackFails
    /\ UNCHANGED tree

(***************************************************************************)
(* untarItem: a directory must be new, a file may exist, and other types   *)
(* are skipped with a warning.  The item "./" is the destination itself.   *)
(***************************************************************************)
untarItem ==
    /\ unpacker = "UntarGZArchive"
    /\ position < Len(archive)
    /\ LET n == Item.name
           old == tree[n].type
       IN
       \/ /\ \/ Item.type = "dir" /\ n = "./" /\ UNCHANGED tree
             \/ Item.type = "dir" /\ n # "./" /\ old = "absent" /\ Put(n, "dir", 1)
             \/ Item.type = "reg" /\ old # "dir" /\ Put(n, "reg", Item.size)
             \/ Item.type \notin {"dir", "reg"} /\ UNCHANGED tree
          /\ position' = position + 1
          /\ UNCHANGED <<archive, unpacker, unpackResult>>
       \/ \* os.Mkdir or os.Create fails, or the data cannot be copied
          /\ \/ Item.type = "dir" /\ n # "./" /\ UNCHANGED tree
             \/ Item.type = "reg" /\ old = "dir" /\ UNCHANGED tree
             \/ /\ Item.type = "reg" /\ old # "dir"
                /\ \E copied \in 0 .. Item.size : Put(n, "reg", copied)
          /\ UnpackFails

\* The command tar: a directory may exist, files and links replace each other.
\* External.
tarItem ==
    /\ unpacker = "UnpackTarImage"
    /\ position < Len(archive)
    /\ \/ Item.name = "./" /\ UNCHANGED tree
       \/ /\ Item.name # "./"
          /\ tree[Item.name].type = "absent" \/ (tree[Item.name].type = "dir" <=> Item.type = "dir")
          /\ Put(Item.name, Item.type, Units(Item))
    /\ position' = position + 1
    /\ UNCHANGED <<archive, unpacker, unpackResult>>

\* io.EOF
UnpackDone ==
    /\ unpacker # "none"
    /\ position = Len(archive)
    /\ unpacker' = "none"
    /\ unpackResult' = "nil"
    /\ UNCHANGED <<archive, position, tree>>

UnpackNext ==
    \/ \E how \in {"UntarGZArchive", "UnpackTarImage"} : Unpack(how)
    \/ UnpackError \/ untarItem \/ tarItem \/ UnpackDone

-----------------------------------------------------------------------------
(***************************************************************************)
(* Copying.  A file is truncated when it is opened; on a device what is    *)
(* not overwritten stays.                                                  *)
(***************************************************************************)
VARIABLES
    source,        \* content of the source, or of the gzip archive
    destination,
    device,        \* the destination is a device
    copyPC,
    buffer,        \* chunks read
    endOfSource,   \* the last Read returned io.EOF
    copied,
    copyResult,
    comparison     \* what CompareFiles returned: "none", "nil", "mismatch" or, when
                   \* a file could not be read to its end, "unread"

copyVars == <<source, destination, device, copyPC, buffer, endOfSource, copied, copyResult, comparison>>

CopyInit ==
    /\ source \in Contents
    /\ destination \in Contents \union {<<>>}
    /\ device \in BOOLEAN
    /\ copyPC = "open"
    /\ buffer = <<>>
    /\ endOfSource = FALSE
    /\ copied = 0
    /\ copyResult = "none"
    /\ comparison = "none"

CopyReturns(result) ==
    /\ copyPC' = "done"
    /\ copyResult' = result

\* Copy, CopyFromGzipArchive, CopyToDevice, CopyFromGzipArchiveToDevice
OpenCopy ==
    /\ copyPC = "open"
    /\ \/ \* a file cannot be opened
          /\ CopyReturns("error")
          /\ UNCHANGED destination
       \/ /\ destination' = IF device THEN destination ELSE <<>>
          /\ \/ copyPC' = "read" /\ UNCHANGED copyResult
             \/ CopyReturns("error")   \* not a gzip archive
    /\ UNCHANGED <<source, device, buffer, endOfSource, copied, comparison>>

\* src.Read: some chunks, with or without io.EOF at the end, or an error
CopyRead ==
    /\ copyPC = "read"
    /\ \/ \E n \in 1 .. Len(source) - copied :
             /\ buffer' = SubSeq(source, copied + 1, copied + n)
             /\ endOfSource' \in {FALSE, copied + n = Len(source)}
             /\ copyPC' = "write"
             /\ UNCHANGED copyResult
       \/ /\ copied = Len(source)
          /\ buffer' = <<>>
          /\ endOfSource' = TRUE
          /\ copyPC' = "write"
          /\ UNCHANGED copyResult
       \/ CopyReturns("error") /\ UNCHANGED <<buffer, endOfSource>>
    /\ UNCHANGED <<source, destination, device, copied, comparison>>

WriteAt(content, offset, data) ==
    SubSeq(content, 1, offset) \o data
        \o SubSeq(content, offset + Len(data) + 1, Len(content))

\* Fault: data that came together with io.EOF is not written.
StopAtEOF == buffer = <<>> \/ endOfSource

NothingRead == buffer = <<>>

\* dst.Write overwrites the error of the read, so the loop ends at the io.EOF
\* that comes without data.
CopyWrite ==
    /\ copyPC = "write"
    /\ \/ /\ NothingRead
          /\ CopyReturns("nil")
          /\ UNCHANGED <<destination, copied>>
       \/ /\ ~ NothingRead
          /\ destination' = WriteAt(destination, copied, buffer)
          /\ copied' = copied + Len(buffer)
          /\ copyPC' = "read"
          /\ UNCHANGED copyResult
       \/ /\ ~ NothingRead
          /\ \E n \in 0 .. Len(buffer) - 1 :
                destination' = WriteAt(destination, copied, SubSeq(buffer, 1, n))
          /\ CopyReturns("error")
          /\ UNCHANGED copied
    /\ UNCHANGED <<source, device, buffer, endOfSource, comparison>>

(***************************************************************************)
(* testtools.CompareFiles: the sizes, then the checksums.  An error of a   *)
(* read is not noticed, and the checksum is that of what was read.         *)
(***************************************************************************)
CompareFiles ==
    /\ copyPC = "done"
    /\ copyPC' = "compared"
    /\ \/ /\ comparison' = IF Len(source) = Len(destination) /\ SumEqual(source, destination)
                           THEN "nil" ELSE "mismatch"
       \/ /\ Len(source) = Len(destination)
          /\ comparison' = "unread"
    /\ UNCHANGED <<source, destination, device, buffer, endOfSource, copied, copyResult>>

CopyNext == OpenCopy \/ CopyRead \/ CopyWrite \/ CompareFiles

CopySpec == CopyInit /\ [][CopyNext]_copyVars

-----------------------------------------------------------------------------
(***************************************************************************)
(* Properties                                                              *)
(***************************************************************************)

\* A file that passed its check is what the cloud announced, although downloads
\* crash, are resumed and find another file behind the URL; and only a crash, a
\* failed removal or a resumed download leaves anything but a whole file behind.
DownloadIsTrusted ==
    /\ accepted => local = fileInfo
    /\ imagePC = "idle" /\ ~ spoiled => local = NoFile \/ local \in Contents

TreeSize == SumFunction([n \in Names |-> tree[n].size])

\* When an archive was unpacked without an error the destination has all its
\* directories and files, the last one of each name; and what is unpacked never
\* takes more than the size that was computed from the archive to reserve space,
\* after failed attempts too.
UnpackedWithinReserve ==
    /\ TreeSize <= GetUncompressedTarContentSize(archive)
    /\ unpackResult = "nil" => \A k \in DOMAIN archive :
          LET item == archive[k] IN
          /\ item.type = "dir" /\ item.name # "./" => tree[item.name].type = "dir"
          /\ item.type = "reg" /\ (\A j \in k + 1 .. Len(archive) : archive[j].name # item.name)
                => tree[item.name] = [type |-> "reg", size |-> item.size]

\* A copy that returns no error has copied everything, once and in order, however
\* the reader cuts it into pieces; the count that is returned is never more than
\* what the destination has; and CompareFiles agrees with that.
CopyIsExact ==
    /\ SubSeq(destination, 1, copied) = SubSeq(source, 1, copied)
    /\ copyResult = "nil" =>
          /\ copied = Len(source)
          /\ ~ device => destination = source /\ comparison # "mismatch"
    /\ comparison = "nil" => destination = source

\* Unpacking and copying: both of the above.
ContentIsExact == UnpackedWithinReserve /\ CopyIsExact

=============================================================================
