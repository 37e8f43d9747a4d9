---------------------------- MODULE MCDeclNetcdf ----------------------------
(* One file.  An event writes two halves of a matrix and a scalar, others     *)
(* read them back and their size; sharing the vector low appends it to a      *)
(* variable with an unlimited dimension, sharing v reads an element of it and *)
(* its size.                                                                  *)
EXTENDS DeclNetcdf

Int32  == [kind |-> "SIGNED", bytes |-> 4]
Uint16 == [kind |-> "UNSIGNED", bytes |-> 2]
Float  == [kind |-> "FLOAT", bytes |-> 4]
Point3 == [kind |-> "RECORD", bytes |-> 12, name |-> "point"]
Dense(elem, sizes)  == [elem |-> elem, sizes |-> sizes, dense |-> TRUE]
Padded(elem, sizes) == [elem |-> elem, sizes |-> sizes, dense |-> FALSE]

Selection(start, subsize) == [start |-> start, subsize |-> subsize]
Io(path, start, subsize)  == [variable |-> path, variable_selection |-> Selection(start, subsize)]
NameList(names) == [names |-> names]
DimNames(dims) == [i \in DOMAIN dims |-> <<dims[i], 0>>]
Attribute(name, data) == [name |-> name, data |-> data]

Matrix == <<"g", "m", "matrix">>
Log    == <<"log">>

Halves    == [top |-> Io(Matrix, <<0, 0>>, <<1, 2>>), low |-> Io(Matrix, <<1, 0>>, <<1, 2>>)]
Groups1   == <<"g">> :> [attributes |-> <<Attribute("unit", "s")>>]
Variables == Matrix :> [attributes |-> <<Attribute("level", "u"), Attribute("unit", "s")>>,
                        type |-> Dense(Int32, <<2, 2>>), dimensions |-> DimNames(<<"height", "width">>)]
Scalar    == <<"u">> :> <<>>

MCTrees ==
    <<[file |-> "f", on_event |-> <<"write">>, groups |-> Groups1, variables |-> Variables @@ Scalar,
       write |-> Halves @@ [u |-> [variable |-> <<"level">>]]],
      [file |-> "f", on_event |-> <<"read">>, groups |-> Groups1, variables |-> Variables @@ Scalar,
       read |-> Halves @@ [u |-> <<>>]],
      [file |-> "f", when |-> <<"u">>, variables |-> Log :> [type |-> Dense(Int32, <<0>>), dimensions |-> DimNames(<<"time">>)],
       write |-> [low |-> Io(Log, <<1>>, <<2>>) @@ [when |-> <<"s">>]]],
      [file |-> "f", read |-> [v |-> [variable |-> Log, variable_selection |-> [start |-> <<2>>], when |-> <<"u">>]]],
      [file |-> "f", read |-> [v |-> [size_of |-> Log] @@ [when |-> <<"u">>]]],
      [file |-> "f", on_event |-> <<"size">>, groups |-> <<"g", "m">> :> <<>>, read |-> [v |-> [size_of |-> Matrix]]],
      [file |-> "f", on_event |-> <<"size">>, variables |-> Matrix :> [attributes |-> <<Attribute("unit", "s")>>],
       read |-> [v |-> [variable |-> Matrix]]],
      [file |-> "f", on_event |-> <<"update">>, read |-> NameList(<<"low">>), write |-> NameList(<<"s">>)],
      [file |-> "f", on_event |-> <<"copy">>, write |-> NameList(<<"top", "low">>)]>>

Offer(type, value, rights) == [type |-> type, value |-> value, rights |-> rights]

MCOffers ==
    [n \in {"top", "low", "u", "s", "v"} |->
        CASE n = "top" -> {Offer(Dense(Int32, <<1, 2>>), 10, {"r", "w"}), Offer(Padded(Int32, <<1, 3>>), 10, {"r"})}
          [] n = "low" -> {Offer(Dense(Int32, <<1, 2>>), 20, {"r", "w"}), Offer(Dense(Int32, <<1, 1>>), 30, {"r", "w"})}
          [] n = "u"   -> {Offer(Dense(Int32, <<>>), 0, {"r", "w"}), Offer(Dense(Float, <<>>), -1, {"r", "w"})}
          [] n = "s"   -> {Offer(Dense(Int32, <<>>), 0, {"r", "w"}), Offer(Padded(Int32, <<2>>), 0, {"r"}),
                           Offer(Dense(Point3, <<1>>), 0, {"r"}),
                           Offer(Dense(Uint16, <<>>), 0, {"w"}), Offer(Dense(Int32, <<1>>), 0, {"w"}), Offer(Dense(Int32, <<1, 1>>), 0, {"w"})}
          [] n = "v"   -> {Offer(Dense(Int32, <<2>>), 40, {"r", "w"}), Offer(Dense(Int32, <<1>>), 40, {"r", "w"}), Offer(Dense(Int32, <<>>), 40, {"w"}),
                           Offer(Dense(Uint16, <<1>>), 40, {"r", "w"})}]
=============================================================================
