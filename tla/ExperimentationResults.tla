----------------------- MODULE ExperimentationResults -----------------------
(***************************************************************************)
(* What an experiment keeps and writes: a vector with a RunData for every  *)
(* measurement, which holds a ProbeData for every probe, the values of its *)
(* devices and channels. ProbeDataCollector::stop fills it, and            *)
(* ExperimentationResultsWriter writes it, less the mean of the overhead.  *)
(*                                                                         *)
(* A vector is a sequence, so that index i of the code is i + 1 here. The  *)
(* dimensions of a probe are a record with nbDevices and nbChannels.       *)
(* Doubles are integers: a mean is kept as its sum, and what is written is *)
(* multiplied by the number of overhead measurements. That the file may    *)
(* not be open, and the results go to the console, is left out.            *)
(***************************************************************************)
EXTENDS Integers, SequencesExt

-----------------------------------------------------------------------------
(* ProbeData and RunData.                                                  *)

Devices(dim) == 0 .. dim.nbDevices - 1
Channels(dim) == 0 .. dim.nbChannels - 1

Places(dim) == Devices(dim) \X Channels(dim)

ProbeData(dim) == [x \in Places(dim) |-> 0]

\* As if the rows had the length of the columns.
setDataTransposed(dim, pData) ==
  [x \in Places(dim) |-> pData[(x[2] * dim.nbDevices + x[1]) + 1]]

\* pData has device after device.
setData(dim, pData) ==
  [x \in Places(dim) |-> pData[(x[1] * dim.nbChannels + x[2]) + 1]]

Plus(pd1, pd2) == [x \in DOMAIN pd1 |-> pd1[x] + pd2[x]]

\* operator<<: device after device.
Cells(dim, pd) ==
  [i \in 1 .. dim.nbDevices * dim.nbChannels |->
     pd[<< (i - 1) \div dim.nbChannels, (i - 1) % dim.nbChannels >>]]

RunData(dims) == [p \in DOMAIN dims |-> ProbeData(dims[p])]

-----------------------------------------------------------------------------
(* ExperimentationResults: nb is m_nbMeasurement.                          *)

NewResults(nbMetaRepeat, dims) ==
  [runs |-> [i \in 1 .. nbMetaRepeat |-> RunData(dims)], nb |-> 0]

isFull(res) == res.nb >= Len(res.runs)

\* The size is doubled.
extend(res, dims) ==
  [res EXCEPT !.runs = @ \o [i \in DOMAIN @ |-> RunData(dims)]]

Room(res, dims) == IF isFull(res) THEN extend(res, dims) ELSE res

\* The index that setProbeData uses is within the vector.
Fits(res, dims) == res.nb < Len(Room(res, dims).runs)

\* setProbeData for every probe: raw has what their stops returned.
setAllData(res, dims, raw) ==
  [res EXCEPT !.runs[res.nb + 1] =
     [p \in DOMAIN dims |-> setData(dims[p], raw[p])]]

measurementDone(res) == [res EXCEPT !.nb = @ + 1]

\* stop of the collector: room is made, every probe's values are copied, and
\* the measurement counts.
Stored(res, dims, raw) ==
  measurementDone(setAllData(Room(res, dims), dims, raw))

-----------------------------------------------------------------------------
(* ExperimentationResultsWriter.                                           *)

Valid(res) == SubSeq(res.runs, 1, res.nb)

SumOf(res, dims, p) ==
  FoldLeft(LAMBDA sum, run : Plus(sum, run[p]), ProbeData(dims[p]),
           Valid(res))

\* libsOverheadAvg[p] is not NULL, and its quotient not 0.
HasMean(overhead) == overhead.nb > 0

\* rawProbeData - mean, times the number of overhead measurements.
Net(overhead, dims, p, pd) ==
  LET sum == SumOf(overhead, dims, p)
  IN [x \in DOMAIN pd |-> overhead.nb * pd[x] - sum[x]]

\* The semicolons behind each label.
Header(dims) == [p \in DOMAIN dims |-> dims[p].nbDevices * dims[p].nbChannels]

Row(overhead, dims, run) ==
  FlattenSeq([p \in DOMAIN dims |->
                Cells(dims[p], Net(overhead, dims, p, run[p]))])

Written(overhead, res, dims) ==
  [header |-> Header(dims),
   rows |-> [i \in DOMAIN Valid(res) |->
               Row(overhead, dims, Valid(res)[i])]]
=============================================================================
