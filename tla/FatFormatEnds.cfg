SPECIFICATION FormatSpec
CONSTANT Disks = {8530, 8531, 8532, 8533, 8534, 8535, 8536, 8537, 8538, 8539, 8540, 8541, 8542, 8543, 8544, 8545, 8546, 8547, 8548, 8549, 8550, 8551, 8552, 8553, 8554, 8555, 8556, 8557, 8558, 8559}
PROPERTY FormatEnds
CHECK_DEADLOCK FALSE
