---------------------------- MODULE MCImFormat ------------------------------
(* Four internal formats and a plugin that reads the files of one of them. *)
(* GIF tests what it read, RAS needs four bytes, PNM two.                  *)
EXTENDS ImFormat

MCInternal == <<"TIFF", "GIF", "RAS", "PNM">>

File(ext, bears, short, flaws) ==
  [exists |-> TRUE, empty |-> FALSE, ext |-> ext, bears |-> bears,
   short |-> short, flaws |-> flaws]

MCTraits == [
  missing |-> [File({"PNM"}, {}, {}, {}) EXCEPT !.exists = FALSE],
  empty   |-> [File({}, {}, Format, {}) EXCEPT !.empty = TRUE],
  image   |-> File({"PNM"}, {"PNM"}, {}, {}),
  foreign |-> File({"GIF"}, {}, {}, {}),
  misnamed |-> File({"GIF"}, {"PNM"}, {}, {}),
  tiny    |-> File({}, {"PNM"}, Format \ {"PNM", "JP2"}, {}),
  unknown |-> File({"TIFF"}, {"TIFF"}, {}, {"COMPRESS"}),
  hollow  |-> File({}, {"GIF"}, {}, {"HOLLOW", "ACCESS"}),
  twice   |-> File({"RAS"}, {"RAS", "JP2"}, {}, {}) ]
=============================================================================
