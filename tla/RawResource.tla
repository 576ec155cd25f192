----------------------------- MODULE RawResource -----------------------------
(***************************************************************************)
(* The raw resource API of the Lua binding, src/arcan_lua.c 99-229:        *)
(* zap_resource, open_rawresource, read_rawresource, write_rawresource and *)
(* close_rawresource share the one FILE* lua_ctx_store.rfile.  Resources   *)
(* live in two namespaces (the theme's and the shared one); a name is a    *)
(* link to a file (an inode), so a file unlinked while open stays readable *)
(* and writable through the handle.  File contents are sequences of       *)
(* characters from a small alphabet and the newline NL; fgets reads into a *)
(* buffer of LineBuf bytes.                                                *)
(***************************************************************************)
EXTENDS Naturals, Sequences, SequencesExt

CONSTANTS
  Names,      \* resource names the script uses
  Chars,      \* non-blank characters
  NL,         \* the newline, the only blank character the model needs
  Msgs,       \* the strings passed to write_rawresource
  LineBuf,    \* sizeof(line) in arcan_lua_readrawresource
  Inodes,     \* the files that can exist
  MaxLen      \* bound on a file's length

THEME  == "theme"
SHARED == "shared"
Namespaces == {THEME, SHARED}
NoIno  == "none"
NoFile == [ino |-> NoIno, mode |-> "none", pos |-> 0]

VARIABLES
  fs,         \* the directory entries: namespace -> name -> inode
  data,       \* the contents of each inode
  rfile,      \* lua_ctx_store.rfile: [ino, mode, pos] or NoFile
  created,    \* inodes created by open_rawresource (ghost)
  written,    \* per created inode, the strings written with result true (ghost)
  readSince   \* the strings read_rawresource returned since the last open (ghost)

vars == <<fs, data, rfile, created, written, readSince>>

(* isspace: the newline is the only blank in the alphabet.               *)
IsSpace(c) == c = NL

(* chop: leading and trailing blanks removed.                            *)
Chop(s) ==
  LET first == SelectInSeq(s, LAMBDA c : ~IsSpace(c))
      last  == SelectLastInSeq(s, LAMBDA c : ~IsSpace(c))
  IN IF first = 0 THEN <<>> ELSE SubSeq(s, first, last)

(* fgets(line, LineBuf, f) at position p of d: up to and including the    *)
(* next NL, at most LineBuf - 1 characters; <<>> when at the end.         *)
FGets(d, p) ==
  LET rest == SubSeq(d, p + 1, Len(d))
      nl   == SelectInSeq(rest, IsSpace)
      n    == IF nl # 0 /\ nl <= LineBuf - 1 THEN nl
              ELSE IF Len(rest) < LineBuf - 1 THEN Len(rest) ELSE LineBuf - 1
  IN SubSeq(rest, 1, n)

(* findresource(name, mask): a namespace of the mask holding the name;    *)
(* arcan_find_resource is outside the repository, so the order in which   *)
(* it searches the namespaces is left open.                               *)
Found(name, mask) == {ns \in mask : fs[ns][name] # NoIno}

Init ==
  /\ fs \in [Namespaces -> [Names -> Inodes \cup {NoIno}]]
  /\ \A ns1, ns2 \in Namespaces, n1, n2 \in Names :
       fs[ns1][n1] = fs[ns2][n2] /\ fs[ns1][n1] # NoIno => ns1 = ns2 /\ n1 = n2
  /\ data \in [Inodes -> {<<>>} \cup {<<c, NL>> : c \in Chars}]
  /\ \A i \in Inodes : data[i] # <<>> => \E ns \in Namespaces, n \in Names : fs[ns][n] = i
  /\ rfile = NoFile
  /\ created = {}
  /\ written = [i \in Inodes |-> <<>>]
  /\ readSince = <<>>

Linked(i) == \E ns \in Namespaces, n \in Names : fs[ns][n] = i

(* arcan_lua_zapresource: the theme's link is removed; the result pushed  *)
(* (false on success) is not kept.  An open handle on it stays valid.      *)
ZapResource(name) ==
  /\ fs[THEME][name] # NoIno
  /\ fs' = [fs EXCEPT ![THEME][name] = NoIno]
  /\ UNCHANGED <<data, rfile, created, written, readSince>>

(* Mutant: a name that is found is opened "w+" as well (the test on path *)
(* inverted), truncating it.                                              *)
RawResourceTruncate(name) ==
  /\ readSince' = <<>>
  /\ IF Found(name, Namespaces) # {}
     THEN /\ \E ns \in Found(name, Namespaces) :
               /\ rfile' = [ino |-> fs[ns][name], mode |-> "w+", pos |-> 0]
               /\ data' = [data EXCEPT ![fs[ns][name]] = <<>>]
          /\ UNCHANGED <<fs, created, written>>
     ELSE /\ rfile' = NoFile
          /\ UNCHANGED <<fs, data, created, written>>

(* arcan_lua_rawresource: any open file is closed; a name found in the    *)
(* theme or shared namespace is opened "r", otherwise a new file is       *)
(* created in the theme's namespace with "w+".  fopen may fail.           *)
RawResource(name) ==
  /\ readSince' = <<>>
  /\ IF Found(name, Namespaces) # {}
     THEN /\ \E ns \in Found(name, Namespaces) :
               rfile' \in {[ino |-> fs[ns][name], mode |-> "r", pos |-> 0], NoFile}
          /\ UNCHANGED <<fs, data, created, written>>
     ELSE \/ /\ rfile' = NoFile
             /\ UNCHANGED <<fs, data, created, written>>
          \/ \E i \in Inodes :
               /\ ~Linked(i) /\ i \notin created /\ rfile.ino # i
               /\ fs' = [fs EXCEPT ![THEME][name] = i]
               /\ data' = [data EXCEPT ![i] = <<>>]
               /\ created' = created \cup {i}
               /\ rfile' = [ino |-> i, mode |-> "w+", pos |-> 0]
               /\ UNCHANGED written

(* arcan_lua_readrawresource: a line read with fgets and chopped; nothing *)
(* is returned at the end of the file or without a file.                  *)
ReadRawResource ==
  /\ rfile # NoFile
  /\ LET line == FGets(data[rfile.ino], rfile.pos)
     IN /\ line # <<>>
        /\ rfile' = [rfile EXCEPT !.pos = @ + Len(line)]
        /\ readSince' = Append(readSince, Chop(line))
  /\ UNCHANGED <<fs, data, created, written>>

(* Mutant: fwrite given strlen(mesg) + 1, so the terminating NUL is      *)
(* written too.                                                           *)
PushRawStrWithNul(msg) ==
  /\ rfile # NoFile
  /\ LET i == rfile.ino
         d == data[i]
         m == msg \o <<"nul">>
     IN IF rfile.mode = "w+" /\ msg # <<>>
        THEN /\ Len(d) + Len(m) <= MaxLen
             /\ data' = [data EXCEPT ![i] = SubSeq(d, 1, rfile.pos) \o m
                                    \o SubSeq(d, rfile.pos + Len(m) + 1, Len(d))]
             /\ rfile' = [rfile EXCEPT !.pos = @ + Len(m)]
             /\ written' = IF i \in created
                           THEN [written EXCEPT ![i] = Append(@, msg)]
                           ELSE written
        ELSE UNCHANGED <<data, rfile, written>>
  /\ UNCHANGED <<fs, created, readSince>>

(* arcan_lua_pushrawstr: fwrite(mesg, strlen(mesg), 1, rfile) == 1.  It   *)
(* writes nothing and fails on a stream opened "r", and returns 0 items   *)
(* for an empty string.  No newline is added.                             *)
PushRawStr(msg) ==
  /\ rfile # NoFile
  /\ LET i == rfile.ino
         d == data[i]
     IN IF rfile.mode = "w+" /\ msg # <<>>
        THEN /\ Len(d) + Len(msg) <= MaxLen
             /\ data' = [data EXCEPT ![i] = SubSeq(d, 1, rfile.pos) \o msg
                                    \o SubSeq(d, rfile.pos + Len(msg) + 1, Len(d))]
             /\ rfile' = [rfile EXCEPT !.pos = @ + Len(msg)]
             /\ written' = IF i \in created
                           THEN [written EXCEPT ![i] = Append(@, msg)]
                           ELSE written
        ELSE UNCHANGED <<data, rfile, written>>
  /\ UNCHANGED <<fs, created, readSince>>

(* arcan_lua_rawclose                                                     *)
RawClose ==
  /\ rfile' = NoFile
  /\ UNCHANGED <<fs, data, created, written, readSince>>

Next ==
  \/ \E n \in Names : ZapResource(n) \/ RawResource(n)
  \/ ReadRawResource
  \/ \E m \in Msgs : PushRawStr(m)
  \/ RawClose

Spec == Init /\ [][Next]_vars

-----------------------------------------------------------------------------
TypeOK ==
  /\ fs \in [Namespaces -> [Names -> Inodes \cup {NoIno}]]
  /\ data \in [Inodes -> Seq(Chars \cup {NL})]
  /\ rfile \in {NoFile} \cup [ino: Inodes, mode: {"r", "w+"}, pos: 0..MaxLen]
  /\ rfile # NoFile => rfile.pos <= Len(data[rfile.ino])
  /\ created \subseteq Inodes

(* Opening, writing, zapping and closing in any order never takes content *)
(* away from a file: open_rawresource truncates (w+) only a name found in *)
(* neither namespace, and write_rawresource only extends.                 *)
ContentOnlyGrows ==
  [][\A i \in Inodes : Linked(i) => IsPrefix(data[i], data'[i])]_vars

(* write_rawresource "writes a line" and read_rawresource "reads a line"  *)
(* (the comments at their registration): the lines a script wrote to a    *)
(* new resource come back, one per read, after it is opened again.        *)
RoundTrip ==
  (rfile # NoFile /\ rfile.mode = "r" /\ rfile.ino \in created)
    => IsPrefix(readSince, [k \in DOMAIN written[rfile.ino] |->
                              Chop(written[rfile.ino][k])])

=============================================================================
