---------------------------- MODULE SourceTransform ----------------------------
(***************************************************************************)
(* AXTS1 (text_source_transform.py): a bundle of source files or of        *)
(* Wikimedia pages is taken apart into metadata and contents.  A bundle is *)
(* the sequence of its records; its digest of the manifest is one unit and *)
(* its framing only counts.  Every number has one form, every name and     *)
(* path only one front coding: each bundle has one transform of each kind. *)
(***************************************************************************)
EXTENDS ByteStrings

CONSTANTS FieldSize,    \* 8 bytes: a number in a bundle
          BundleFrame     \* 47 bytes: magic, number of records and manifest

Dot == 46
Slash == 47
Manifest == 1

(* Stands for strict UTF-8. *)
ValidText(bytes) == \A i \in DOMAIN bytes : bytes[i] # Marker

(* The order of byte strings. *)
Less(left, right) ==
  LET n == CommonPrefix(left, right)
  IN  /\ n < Len(right)
      /\ n < Len(left) => left[n + 1] < right[n + 1]

Lower(byte) == IF byte \in 65..90 THEN byte + 32 ELSE byte

Extension(path) ==
  LET start == Max({0} \cup {i \in DOMAIN path : path[i] = Slash})
      name == Rest(path, start)
      dot == Max({0} \cup {i \in DOMAIN name : name[i] = Dot})
  IN  IF dot <= 1 \/ dot = Len(name) THEN <<>>
      ELSE [i \in 1..(Len(name) - dot + 1) |-> Lower(name[dot + i - 1])]

LaneNames(kind, paths) ==
  IF kind = "source" \/ paths = {} THEN << <<>> >>
  ELSE SetToSortSeq({Extension(path) : path \in paths}, Less)

SourceSize(records) ==
  BundleFrame + FoldLeft(LAMBDA sum, r : sum + 2 * FieldSize + Len(r.path) + Len(r.content),
                       0, records)

WikimediaSize(records) ==
  BundleFrame + FoldLeft(LAMBDA sum, r : sum + 4 * FieldSize + Len(r.title) + Len(r.text),
                       0, records)

(* What the readers of bundles accept. *)
SourceBundle(records) ==
  \A i \in DOMAIN records :
    /\ records[i].path # <<>> /\ ValidText(records[i].path)
    /\ i > 1 => Less(records[i - 1].path, records[i].path)

WikimediaBundle(records) == \A i \in DOMAIN records : ValidText(records[i].title)
--------------------------------------------------------------------------------
EncodeSource(kind, records) ==
  LET lanes == LaneNames(kind, {records[i].path : i \in DOMAIN records})
      lane(r) == IF kind = "source" THEN 1
                 ELSE CHOOSE l \in DOMAIN lanes : lanes[l] = Extension(r.path)
      prefix(i) == IF i = 1 THEN 0 ELSE CommonPrefix(records[i - 1].path, records[i].path)
      row(i) == Varint(prefix(i)) \o Sized(Rest(records[i].path, prefix(i)))
                  \o Varint(Len(records[i].content)) \o Varint(lane(records[i]) - 1)
      contents(l) == FlattenSeq([i \in DOMAIN records |->
                       IF lane(records[i]) = l THEN records[i].content ELSE <<>>])
  IN  IF ~SourceBundle(records) THEN {}
      ELSE {<<Len(records), Manifest>> \o Varint(Len(lanes))
              \o FlattenSeq([l \in DOMAIN lanes |-> Sized(lanes[l])])
              \o Sized(FlattenSeq([i \in DOMAIN records |-> row(i)]))
              \o FlattenSeq([l \in DOMAIN lanes |-> Sized(contents(l))])}

(* A front coding of a name: the shortest suffix there is. *)
FrontCoded(previous, prefix, suffix) ==
  {name \in {SubSeq(previous, 1, prefix) \o suffix} :
     ValidText(name) /\ prefix = CommonPrefix(previous, name)}

ReadPath(bytes, previous) ==
  UNION {UNION {
    {[value |-> path, rest |-> suffix.rest] :
       path \in {p \in FrontCoded(previous, prefix.value, suffix.value) : Less(previous, p)}} :
    suffix \in ReadSized("strict", prefix.rest)} :
    prefix \in {p \in ReadVarint("strict", bytes) : p.value <= Len(previous)}}

ReadSourceRow(kind, lanes, bytes, previous) ==
  UNION {{[path |-> path.value, size |-> n.value[1], lane |-> n.value[2] + 1,
           rest |-> n.rest] :
            n \in {n \in ReadVarints("strict", path.rest, 2) :
                     /\ n.value[2] < Len(lanes)
                     /\ kind = "lanes" => lanes[n.value[2] + 1] = Extension(path.value)}} :
    path \in ReadPath(bytes, previous)}

RECURSIVE ReadSourceRows(_, _, _, _, _)
ReadSourceRows(kind, lanes, bytes, count, rows) ==
  IF count = 0 THEN IF bytes = <<>> THEN {rows} ELSE {}
  ELSE UNION {ReadSourceRows(kind, lanes, row.rest, count - 1, Append(rows, row)) :
                row \in ReadSourceRow(kind, lanes, bytes,
                                      IF rows = <<>> THEN <<>> ELSE Last(rows).path)}

(* The contents of the rows, taken from their lanes in turn. *)
RECURSIVE FromLanes(_, _)
FromLanes(rows, lanes) ==
  IF rows = <<>> THEN <<>>
  ELSE LET row == Head(rows)
       IN  <<[path |-> row.path, content |-> SubSeq(lanes[row.lane], 1, row.size)]>>
             \o FromLanes(Tail(rows), [lanes EXCEPT ![row.lane] = Rest(@, row.size)])

LaneTotals(rows, lanes) ==
  [l \in DOMAIN lanes |->
     FoldLeft(LAMBDA sum, r : sum + IF r.lane = l THEN r.size ELSE 0, 0, rows)]

(* The records, if the numbers of the metadata are those of the contents. *)
ReadContents(rows, names, bytes, size) ==
  {FromLanes(rows, lanes.value) :
     lanes \in {c \in ReadAllSized("strict", bytes, Len(names)) :
       /\ c.rest = <<>>
       /\ LaneTotals(rows, names) = [l \in DOMAIN names |-> Len(c.value[l])]
       /\ size = BundleFrame + FoldLeft(LAMBDA sum, r : sum + 2 * FieldSize + Len(r.path) + r.size,
                                      0, rows)}}

DecodeSource(kind, code, size) ==
  UNION {UNION {UNION {
    ReadContents(rows, names.value, metadata.rest, size) :
      rows \in {rows \in ReadSourceRows(kind, names.value, metadata.value, code[1], <<>>) :
                  LaneNames(kind, {rows[i].path : i \in DOMAIN rows}) = names.value}} :
    metadata \in ReadSized("strict", names.rest)} :
    names \in UNION {{n \in ReadAllSized("strict", count.rest, count.value) :
                        \A l \in 2..Len(n.value) : Less(n.value[l - 1], n.value[l])} :
                     count \in {c \in ReadVarint("strict", Rest(code, 2)) : c.value > 0}}}
--------------------------------------------------------------------------------
(* Differences of ids are signed and have a bit less. *)
InRange(delta) == -Word <= 2 * delta /\ 2 * delta < Word
Zigzag(delta) == IF delta >= 0 THEN 2 * delta ELSE -2 * delta - 1
FromZigzag(value) == IF value % 2 = 0 THEN value \div 2 ELSE -((value + 1) \div 2)

FirstPage == [page |-> 0, revision |-> 0, title |-> <<>>, text |-> <<>>]

EncodeWikimedia(records) ==
  LET before(i) == IF i = 1 THEN FirstPage ELSE records[i - 1]
      page(i) == records[i].page - before(i).page
      revision(i) == records[i].revision - before(i).revision
      prefix(i) == CommonPrefix(before(i).title, records[i].title)
      suffix(i) == Rest(records[i].title, prefix(i))
      row(i) == Varint(Zigzag(page(i))) \o Varint(Zigzag(revision(i)))
                  \o Varint(prefix(i)) \o Varint(Len(suffix(i)))
                  \o Varint(Len(records[i].text))
      rows == FlattenSeq([i \in DOMAIN records |-> row(i)])
      titles == FlattenSeq([i \in DOMAIN records |-> suffix(i)])
      texts == FlattenSeq([i \in DOMAIN records |-> records[i].text])
  IN  IF \/ ~WikimediaBundle(records)
         \/ \E i \in DOMAIN records : ~InRange(page(i)) \/ ~InRange(revision(i))
      THEN {}
      ELSE {<<Len(records), Manifest>> \o Varint(Len(rows)) \o Varint(Len(titles))
              \o Varint(Len(texts)) \o rows \o titles \o texts}

(* One page from the front of metadata, titles and texts. *)
ReadPage(rows, titles, texts, previous) ==
  UNION {UNION {
    {[page |-> [page |-> previous.page + FromZigzag(n.value[1]),
                revision |-> previous.revision + FromZigzag(n.value[2]),
                title |-> title, text |-> text.value],
      rows |-> n.rest, titles |-> suffix.rest, texts |-> text.rest] :
       title \in FrontCoded(previous.title, n.value[3], suffix.value)} :
    <<suffix, text>> \in Take(titles, n.value[4]) \X Take(texts, n.value[5])} :
    n \in {n \in ReadVarints("strict", rows, 5) :
             /\ previous.page + FromZigzag(n.value[1]) \in 0..(Word - 1)
             /\ previous.revision + FromZigzag(n.value[2]) \in 0..(Word - 1)
             /\ n.value[3] <= Len(previous.title)}}

RECURSIVE ReadPages(_, _, _, _, _)
ReadPages(rows, titles, texts, count, pages) ==
  IF count = 0 THEN IF rows = <<>> /\ titles = <<>> /\ texts = <<>> THEN {pages} ELSE {}
  ELSE UNION {ReadPages(next.rows, next.titles, next.texts, count - 1,
                        Append(pages, next.page)) :
                next \in ReadPage(rows, titles, texts,
                                  IF pages = <<>> THEN FirstPage ELSE Last(pages))}

DecodeWikimedia(code, size) ==
  UNION {UNION {UNION {
    {pages \in ReadPages(rows.value, titles.value, texts.value, code[1], <<>>) :
       WikimediaSize(pages) = size /\ texts.rest = <<>>} :
    texts \in Take(titles.rest, n.value[3])} :
    <<rows, titles>> \in UNION {{r} \X Take(r.rest, n.value[2]) : r \in Take(n.rest, n.value[1])}} :
    n \in ReadVarints("strict", Rest(code, 2), 3)}
================================================================================
