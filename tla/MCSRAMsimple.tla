---------------------------- MODULE MCSRAMsimple ----------------------------
(***************************************************************************)
(* The instance of SRAMsimple that TLC checks; see SRAMsimple_spi.cfg.     *)
(***************************************************************************)
EXTENDS SRAMsimple

MCCallAddrs == {0, 2, 5, 7, 9}

MCCalls ==
  {[kind |-> k, vals |-> v] :
     k \in {"Byte"}, v \in {<<>>, <<0>>, <<1>>, <<0, 1, 1>>}}
  \cup {[kind |-> "Int", vals |-> v] : v \in {<<-2>>, <<1>>, <<-1, 0>>}}
  \cup {[kind |-> "UInt", vals |-> v] : v \in {<<2>>, <<3, 1>>}}
  \cup {[kind |-> "Long", vals |-> v] : v \in {<<-8>>, <<6>>, <<-3, 2>>}}
  \cup {[kind |-> "ULong", vals |-> v] : v \in {<<8>>, <<5, 15>>}}
  \cup {[kind |-> "Float", vals |-> v] : v \in {<< <<1, 0, 0, 0>> >>, << <<0, 0, 1, 1>>, <<0, 1, 0, 0>> >>}}
=============================================================================
