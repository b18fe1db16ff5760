------------------------------ MODULE Mdf4File ------------------------------
(***************************************************************************)
(* The measurement file session.mf4 (offline/src/mdf4): the channel groups *)
(* prepared from the aligned samples, and the blocks they are written as.  *)
(*                                                                         *)
(* A file is [size, blocks]: its size in bytes and, for the address of     *)
(* each block, the block as                                                *)
(*   id      its kind                                                      *)
(*   len     the length its header states                                  *)
(*   links   the addresses its header holds, 0 for none                    *)
(*   data    what follows the links                                        *)
(* A text is TextBytes long with its terminating zero; NaN stands for      *)
(* every sample that is missing.                                           *)
(***************************************************************************)
EXTENDS Lists

CONSTANTS
  TextBytes,
  NaN

ASSUME TextAssumption == TextBytes \in Nat \ {0}

(* ctype                                                                   *)
ByteSize(type) ==
  CASE type = "float64" -> 8 [] type = "float32" -> 4 [] type = "int16" -> 2 [] OTHER -> 1

Widths(channels) == [i \in DOMAIN channels |-> ByteSize(channels[i].type)]

(* Deviation: the time at the front of the record is forgotten.            *)
OffsetWithoutTime(channels, i) == SumSeq(SubSeq(Widths(channels), 1, i - 1))

(* make_layout: the offsets of the channels behind the time of the record, *)
(* and the size of a record.                                               *)
Offset(channels, i) == 8 + SumSeq(SubSeq(Widths(channels), 1, i - 1))
RecordSize(channels) == 8 + SumSeq(Widths(channels))
-----------------------------------------------------------------------------
(* fill_channel_data: the column of a channel, NaN where a sample is not   *)
(* valid.                                                                  *)
Filled(valid, values) == [i \in DOMAIN values |-> IF valid[i] THEN values[i] ELSE NaN]

(* Mdf4Writer::prepare: the groups.  Values the samples here do not hold   *)
(* are 0.  The trajectory has no valid solution in either format, and      *)
(* nothing computes the speeds of Scene.Metrics.                           *)
Channel(name, unit, type, data) == [name |-> name, unit |-> unit, type |-> type, data |-> data]

Prepare(samples, geom, start) ==
  LET times(seq)  == [i \in DOMAIN seq |-> seq[i].t - start]
      Bit(b)      == IF b THEN 1 ELSE 0
      Zero(s)     == 0
      Ego(x(_))   == [i \in DOMAIN samples |-> x(samples[i])]
      Source(x(_)) == Filled(Ego(LAMBDA s : s.src_valid), Ego(x))
      Imu         == Filled(Ego(LAMBDA s : s.imu_valid), Ego(Zero))
      Trajectory  == Filled(Ego(LAMBDA s : FALSE), Ego(Zero))
      Scene(x(_)) == Filled([i \in DOMAIN geom |-> geom[i].valid],
                            [i \in DOMAIN geom |-> x(geom[i])])
      Group(name, seq, channels) == [name |-> name, times |-> times(seq), channels |-> channels]
  IN  IF samples = << >> THEN << >> ELSE
      <<Group("Ego.GPS", samples,
          <<Channel("latitude", "deg", "float64", Ego(LAMBDA s : s.pos)),
            Channel("longitude", "deg", "float64", Ego(Zero)),
            Channel("altitude", "m", "float64", Ego(Zero)),
            Channel("speed", "m/s", "float32", Ego(Zero)),
            Channel("heading", "deg", "float32", Ego(Zero)),
            Channel("fix_quality", "", "uint8", Ego(LAMBDA s : Bit(s.fix)))>>),
        Group("Ego.IMU", samples, [c \in 1..6 |-> Channel("imu", "SI", "float32", Imu)]),
        Group("Ego.Trajectory", samples,
          [c \in 1..5 |-> Channel("trajectory", "deg", IF c <= 2 THEN "float64" ELSE "float32", Trajectory)]),
        Group("Source.GPS", samples,
          <<Channel("latitude", "deg", "float64", Source(LAMBDA s : s.src_pos)),
            Channel("longitude", "deg", "float64", Source(Zero)),
            Channel("speed", "m/s", "float32", Source(Zero)),
            Channel("valid", "", "uint8", Ego(LAMBDA s : Bit(s.src_valid)))>>)>>
      \o (IF geom = << >> THEN << >> ELSE
      <<Group("Scene", geom,
          <<Channel("range", "m", "float64", Scene(LAMBDA g : g.range)),
            Channel("azimuth", "deg", "float64", Scene(Zero)),
            Channel("closing_speed", "m/s", "float64", Scene(LAMBDA g : g.closing))>>),
        Group("Scene.Metrics", geom,
          [c \in 1..2 |-> Channel("speed", "m/s", "float64", Scene(Zero))])>>)

-----------------------------------------------------------------------------
(* Buf: blocks are appended, links are patched when the target is known.   *)
(* body is the length the block states for what follows its links, written *)
(* the length of what really follows.                                      *)
With(blocks, new) ==
  [a \in DOMAIN blocks \cup DOMAIN new |-> IF a \in DOMAIN new THEN new[a] ELSE blocks[a]]

Put(file, id, links, body, written, data) ==
  [size |-> file.size + 24 + 8 * links + written,
   blocks |-> With(file.blocks, [a \in {file.size} |->
                [id |-> id, len |-> 24 + 8 * links + body,
                 links |-> [k \in 1..links |-> 0], data |-> data]])]

Patch(file, at, link, to) == [file EXCEPT !.blocks[at].links[link] = to]

PaddedText == ((TextBytes + 7) \div 8) * 8

(* Texts one after the other.                                              *)
PutTexts(file, texts) ==
  LET At(i) == file.size + (i - 1) * (24 + PaddedText)
      Block(text) == [id |-> "TX", len |-> 24 + PaddedText, links |-> << >>, data |-> text]
      Nth(a) == CHOOSE i \in DOMAIN texts : At(i) = a
  IN  [size |-> At(Len(texts) + 1),
       blocks |-> With(file.blocks,
                       [a \in {At(i) : i \in DOMAIN texts} |-> Block(texts[Nth(a)])])]

(* ID, HD, FH and the comment.                                             *)
FileHeader(start) ==
  LET id == [size |-> 64, blocks |-> [a \in {0} |-> [id |-> "ID", len |-> 64, links |-> << >>, data |-> << >>]]]
      hd == Put(id, "HD", 6, 32, 8 + 2 + 2 + 1 + 1 + 1 + 1 + 8 + 8, start)
      fh == Patch(Put(hd, "FH", 2, 16, 8 + 2 + 2 + 1 + 3, start), 64, 2, hd.size)
      md == Put(fh, "MD", 0, PaddedText, PaddedText, "comment")
  IN  Patch(Patch(md, 64, 6, fh.size), hd.size, 2, fh.size)

(* write_cn: a channel cn with the addresses of its texts, chained to the  *)
(* channel before it or to its group.                                      *)
PutChannel(w, cn) ==
  LET at    == w.file.size
      put   == Put(w.file, "CN", 8, 72, 1 + 1 + 1 + 1 + 4 + 4 + 4 + 4 + 1 + 1 + 2 + 6 * 8,
                   [master |-> cn.master, type |-> cn.type, offset |-> cn.offset])
      named == Patch(Patch(put, at, 3, cn.name), at, 7, cn.unit)
  IN  [w EXCEPT !.last_cn = at,
                !.file = IF w.last_cn # 0 THEN Patch(named, w.last_cn, 1, at)
                                          ELSE Patch(named, w.cg, 2, at)]

(* The records of a group: the time, then a value per channel, NaN where a *)
(* channel has fewer values than there are times.  A cell is [size, value].*)
Records(group) ==
  [row \in DOMAIN group.times |->
    <<[size |-> 8, value |-> group.times[row]]>> \o
    [i \in DOMAIN group.channels |->
       LET c == group.channels[i]
       IN  [size |-> ByteSize(c.type), value |-> IF row \in DOMAIN c.data THEN c.data[row] ELSE NaN]]]

RowBytes(row) == SumSeq([i \in DOMAIN row |-> row[i].size])

(* One group: its texts, then the data group DG, the channel group CG, the *)
(* channels CN, master first, and the data DT.                             *)
PutGroup(w, group) ==
  LET names == <<group.name, "time", "s">> \o
                 FlattenSeq([i \in DOMAIN group.channels |->
                               <<group.channels[i].name, group.channels[i].unit>>])
      first == w.file.size
      At(i) == first + (i - 1) * (24 + PaddedText)        (* of the i-th text *)
      texts == PutTexts(w.file, names)
      dg    == texts.size
      with_dg == Patch(Put(texts, "DG", 4, 8, 8, "group"),
                       IF w.last_dg = 0 THEN 64 ELSE w.last_dg, 1, dg)
      cg    == with_dg.size
      with_cg == Patch(Patch(Put(with_dg, "CG", 6, 32, 8 + 8 + 2 + 2 + 4 + 4 + 4,
                                 [cycles |-> Len(group.times),
                                  bytes |-> RecordSize(group.channels)]),
                             cg, 3, At(1)), dg, 2, cg)
      time  == [name |-> At(2), unit |-> At(3), master |-> TRUE, type |-> "float64", offset |-> 0]
      value == [i \in DOMAIN group.channels |->
                  [name |-> At(2 + 2 * i), unit |-> At(3 + 2 * i), master |-> FALSE,
                   type |-> group.channels[i].type, offset |-> Offset(group.channels, i)]]
      channels == FoldLeft(PutChannel, [file |-> with_cg, cg |-> cg, last_cn |-> 0],
                           <<time>> \o value)
      records == Records(group)
      dt    == channels.file.size
      done  == Put(channels.file, "DT", 0, Len(group.times) * RecordSize(group.channels),
                   SumSeq([row \in DOMAIN records |-> RowBytes(records[row])]), records)
  IN  [file |-> Patch(done, dg, 3, dt), last_dg |-> dg]

(* build_mdf4: groups without channels or without samples are left out.    *)
HasSamples(group) == group.channels # << >> /\ group.times # << >>

BuildMdf4(groups, start) ==
  FoldLeft(PutGroup, [file |-> FileHeader(start), last_dg |-> 0],
           Keep(groups, HasSamples)).file

(* validate_mdf4, of a file whose first 128 bytes were written.            *)
ValidMdf4(groups) == \A i \in DOMAIN groups : groups[i].channels = << >> \/ groups[i].times # << >>
=============================================================================
