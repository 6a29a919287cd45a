---------------------- MODULE MCSingleAccountExtractor ----------------------
(* Bounds for SingleAccountExtractor: up to two requests over two          *)
(* addresses, each a full dump, code and balance only, or a slot list;     *)
(* repeated and conflicting requests for one address included.             *)
EXTENDS SingleAccountExtractor

MCSlotsRequests == {None, <<>>, <<1>>}

MCInputs == SeqOf([address: Addr, slots: MCSlotsRequests], 2)

====
